---- MODULE Spec2Model ----
(***************************************************************************)
(* A model of the workflow graph engine of mosaik: the Workflow store      *)
(* (nodes, connections, id counters), the input aggregation, the           *)
(* execution_order scheduler and the run_workflow / execute_model_node     *)
(* streaming protocol.                                                     *)
(*                                                                         *)
(* Encodings.  Option<T> is a sequence of length 0 (None) or 1 (Some).     *)
(* A String is a sequence of one-character strings; "\n" is the newline.   *)
(* An f64 position is an integer.  A HashMap is a function; the order in   *)
(* which a HashMap is iterated is unspecified, so every operation that     *)
(* iterates one takes that order as an argument chosen by the action.      *)
(* The f64 fields of the canvas are binary floating-point numbers with a   *)
(* significand of Precision bits, rounded to nearest, ties to even.        *)
(* The body of a provider response is a sequence of bytes; a byte is a     *)
(* string, "C3" and "A9" being the two bytes of the character written "E"  *)
(* (U+00E9), and "?" is the replacement character U+FFFD.  A line of a     *)
(* body is written as a tag character followed by its text: "c" a content  *)
(* frame, "t" a thinking frame, "d" the closing frame, anything else a     *)
(* line that does not parse.                                               *)
(***************************************************************************)
EXTENDS Integers, Sequences, FiniteSets, TLC

VARIABLES workflow_state, tasks, ord, ret, canvas_state, producer

vars == <<workflow_state, tasks, ord, ret, canvas_state, producer>>

\* ----------------------------------------------------------------- bounds
MaxNodes == 3
MaxConns == 3
MaxChunks == 2
MaxTasks == 2
Precision == 5
MaxOffset == 6

NodeIds == 0 .. (MaxNodes - 1)
ConnIds == 0 .. (MaxConns - 1)
TaskIds == 1 .. MaxTasks

\* ------------------------------------------------------------ basic types
None == <<>>
Some(v) == <<v>>
IsSome(o) == Len(o) = 1
Unwrap(o) == o[1]

EmptyString == <<>>
Separator == <<"\n", "\n">>

Kinds == {"Prompt", "Model"}

Last(s) == s[Len(s)]
Front(s) == SubSeq(s, 1, Len(s) - 1)

\* All the orders in which the keys S of a HashMap can be iterated.
RECURSIVE Perms(_)
Perms(S) ==
    IF S = {} THEN {<<>>}
    ELSE UNION {{<<k>> \o p : p \in Perms(S \ {k})} : k \in S}

Restrict(f, S) == [k \in S |-> f[k]]

Put(f, k, v) == [j \in (DOMAIN f) \cup {k} |-> IF j = k THEN v ELSE f[j]]

\* ------------------------------------------------------------------ nodes
ChatMessage(role, content, thinking) ==
    [role |-> role, content |-> content, thinking |-> thinking]

\* No request is in flight: nothing was read, nothing was sent on the channel.
ProducerIdle ==
    [pc |-> "idle", provider |-> "ollama", frames |-> <<>>, reads |-> <<>>,
     pending |-> <<>>, buffer |-> <<>>, sent |-> <<>>]

\* Node::new
NodeNew(kind, position_x, position_y) ==
    [kind |-> kind,
     position_x |-> position_x,
     position_y |-> position_y,
     input |-> None,
     output |-> None,
     needs_execution |-> TRUE,
     is_executing |-> FALSE,
     messages |-> <<>>]

Connection(from_node_id, to_node_id) ==
    [from_node_id |-> from_node_id, to_node_id |-> to_node_id]

ConnectionDrawingStateDefault ==
    [active |-> FALSE,
     source_node_id |-> 0,
     source_port_world_pos |-> <<0, 0>>,
     current_mouse_world_pos |-> <<0, 0>>,
     target_node_id |-> None]

\* Node::new: the size of a node of each kind.
Width(kind) == IF kind = "Model" THEN 250 ELSE 200
Height(kind) == IF kind = "Model" THEN 300 ELSE 200

get_port_world_pos(node, port_type) ==
    IF port_type = "input"
    THEN <<node.position_x, node.position_y + Height(node.kind) \div 2>>
    ELSE IF port_type = "output"
    THEN <<node.position_x + Width(node.kind),
           node.position_y + Height(node.kind) \div 2>>
    ELSE <<node.position_x, node.position_y>>

\* ------------------------------------------------------- input aggregation
RECURSIVE Join(_, _)
Join(strs, sep) ==
    IF Len(strs) = 0 THEN EmptyString
    ELSE IF Len(strs) = 1 THEN strs[1]
    ELSE strs[1] \o sep \o Join(Tail(strs), sep)

\* Mutant: the comparison takes position_x first.
PositionLeq_XFirst(a, b) ==
    \/ a.x < b.x
    \/ a.x = b.x /\ a.y <= b.y

\* a.0.partial_cmp(&b.0).then_with(|| a.1.partial_cmp(&b.1)) is not Greater
PositionLeq(a, b) ==
    \/ a.y < b.y
    \/ a.y = b.y /\ a.x <= b.x

\* Insert e behind every element that does not compare greater: a stable sort.
RECURSIVE InsertStable(_, _)
InsertStable(sorted, e) ==
    IF Len(sorted) = 0 THEN <<e>>
    ELSE IF PositionLeq(Last(sorted), e) THEN Append(sorted, e)
    ELSE Append(InsertStable(Front(sorted), e), Last(sorted))

RECURSIVE SortByPosition(_)
SortByPosition(data) ==
    IF Len(data) = 0 THEN <<>>
    ELSE InsertStable(SortByPosition(Front(data)), Last(data))

\* Mutant: a source without an output contributes the empty string.
RECURSIVE SourceData_NoneAsEmpty(_, _, _)
SourceData_NoneAsEmpty(wf, target_node_id, iter) ==
    IF Len(iter) = 0 THEN <<>>
    ELSE LET conn == wf.connections[iter[1]]
             rest == SourceData_NoneAsEmpty(wf, target_node_id, Tail(iter))
         IN IF /\ conn.to_node_id = target_node_id
               /\ conn.from_node_id \in DOMAIN wf.nodes
            THEN <<[y |-> wf.nodes[conn.from_node_id].position_y,
                    x |-> wf.nodes[conn.from_node_id].position_x,
                    output |-> IF IsSome(wf.nodes[conn.from_node_id].output)
                               THEN Unwrap(wf.nodes[conn.from_node_id].output)
                               ELSE EmptyString]>> \o rest
            ELSE rest

\* The filter / filter_map of update_node_input_from_all_sources over the
\* connections in iteration order iter.
RECURSIVE SourceData(_, _, _)
SourceData(wf, target_node_id, iter) ==
    IF Len(iter) = 0 THEN <<>>
    ELSE LET conn == wf.connections[iter[1]]
             rest == SourceData(wf, target_node_id, Tail(iter))
         IN IF /\ conn.to_node_id = target_node_id
               /\ conn.from_node_id \in DOMAIN wf.nodes
               /\ IsSome(wf.nodes[conn.from_node_id].output)
            THEN <<[y |-> wf.nodes[conn.from_node_id].position_y,
                    x |-> wf.nodes[conn.from_node_id].position_x,
                    output |-> Unwrap(wf.nodes[conn.from_node_id].output)]>> \o rest
            ELSE rest

Outputs(data) == [i \in 1 .. Len(data) |-> data[i].output]

update_node_input_from_all_sources(wf, target_node_id, iter) ==
    LET source_data == SortByPosition(SourceData(wf, target_node_id, iter))
        combined_input == IF Len(source_data) = 0 THEN None
                          ELSE Some(Join(Outputs(source_data), Separator))
    IN IF target_node_id \in DOMAIN wf.nodes
       THEN [wf EXCEPT !.nodes[target_node_id].input = combined_input]
       ELSE wf

SetNeedsExecution(wf, id, b) ==
    IF id \in DOMAIN wf.nodes
    THEN [wf EXCEPT !.nodes[id].needs_execution = b]
    ELSE wf

\* The targets of the connections leaving source_node_id, in iteration order.
RECURSIVE TargetNodeIds(_, _, _)
TargetNodeIds(wf, source_node_id, iter) ==
    IF Len(iter) = 0 THEN <<>>
    ELSE IF wf.connections[iter[1]].from_node_id = source_node_id
         THEN <<wf.connections[iter[1]].to_node_id>>
                  \o TargetNodeIds(wf, source_node_id, Tail(iter))
         ELSE TargetNodeIds(wf, source_node_id, Tail(iter))

RECURSIVE PropagateLoop(_, _, _)
PropagateLoop(wf, target_node_ids, iter) ==
    IF Len(target_node_ids) = 0 THEN wf
    ELSE PropagateLoop(
             SetNeedsExecution(
                 update_node_input_from_all_sources(wf, target_node_ids[1], iter),
                 target_node_ids[1], TRUE),
             Tail(target_node_ids), iter)

\* Mutant: the targets of the targets are marked as well.
propagate_output_to_connected_nodes_TwoHops(wf, source_node_id, iter) ==
    LET targets == TargetNodeIds(wf, source_node_id, iter)
        first == PropagateLoop(wf, targets, iter)
        second == {wf.connections[c].to_node_id :
                      c \in {k \in DOMAIN wf.connections :
                                \E i \in DOMAIN targets :
                                    wf.connections[k].from_node_id = targets[i]}}
    IN [first EXCEPT !.nodes =
           [m \in DOMAIN first.nodes |->
               IF m \in second
               THEN [first.nodes[m] EXCEPT !.needs_execution = TRUE]
               ELSE first.nodes[m]]]

propagate_output_to_connected_nodes(wf, source_node_id, iter) ==
    PropagateLoop(wf, TargetNodeIds(wf, source_node_id, iter), iter)

\* Mutant: the output is stored also when the node is not in the map.
update_node_output_Upsert(wf, node_id, new_output, iter) ==
    LET published ==
            IF node_id \in DOMAIN wf.nodes
            THEN [wf EXCEPT !.nodes[node_id].output = Some(new_output),
                            !.nodes[node_id].needs_execution = FALSE]
            ELSE [wf EXCEPT !.nodes =
                     Put(wf.nodes, node_id,
                         [NodeNew("Model", 0, 0) EXCEPT !.output = Some(new_output),
                                                        !.needs_execution = FALSE])]
    IN propagate_output_to_connected_nodes(published, node_id, iter)

\* Mutant: the sources of the node are marked as well as its targets.
update_node_output_MarksSources(wf, node_id, new_output, iter) ==
    LET published == IF node_id \in DOMAIN wf.nodes
                     THEN [wf EXCEPT !.nodes[node_id].output = Some(new_output),
                                     !.nodes[node_id].needs_execution = FALSE]
                     ELSE wf
        propagated == propagate_output_to_connected_nodes(published, node_id, iter)
        sources == {wf.connections[k].from_node_id :
                       k \in {c \in DOMAIN wf.connections :
                                 wf.connections[c].to_node_id = node_id}}
    IN [propagated EXCEPT !.nodes =
           [m \in DOMAIN propagated.nodes |->
               IF m \in sources
               THEN [propagated.nodes[m] EXCEPT !.needs_execution = TRUE]
               ELSE propagated.nodes[m]]]

update_node_output(wf, node_id, new_output, iter) ==
    LET published == IF node_id \in DOMAIN wf.nodes
                     THEN [wf EXCEPT !.nodes[node_id].output = Some(new_output),
                                     !.nodes[node_id].needs_execution = FALSE]
                     ELSE wf
    IN propagate_output_to_connected_nodes(published, node_id, iter)

\* ------------------------------------------------------- graph operations
\* Mutant: the node takes the smallest id that is not in the map.
add_node_FillsGap(wf, kind, position_x, position_y) ==
    LET free == (0 .. wf.next_node_id) \ DOMAIN wf.nodes
        id == CHOOSE i \in free : \A j \in free : i <= j
    IN [wf EXCEPT !.nodes = Put(wf.nodes, id, NodeNew(kind, position_x, position_y)),
                  !.next_node_id = wf.next_node_id + 1]

add_node(wf, kind, position_x, position_y) ==
    [wf EXCEPT !.nodes = Put(wf.nodes, wf.next_node_id,
                             NodeNew(kind, position_x, position_y)),
               !.next_node_id = wf.next_node_id + 1]

\* Mutant: the machine goes idle and keeps the source and the positions.
cancel_drawing_connection_KeepsSource(wf) ==
    [wf EXCEPT !.drawing_connection_state.active = FALSE,
               !.drawing_connection_state.target_node_id = None]

cancel_drawing_connection(wf) ==
    [wf EXCEPT !.drawing_connection_state = ConnectionDrawingStateDefault]

\* Mutant: only the connections leaving the node are removed.
remove_node_OutgoingOnly(wf, id) ==
    LET kept == {c \in DOMAIN wf.connections : wf.connections[c].from_node_id # id}
    IN [wf EXCEPT
           !.nodes = Restrict(wf.nodes, (DOMAIN wf.nodes) \ {id}),
           !.connections = Restrict(wf.connections, kept),
           !.selected_node_id = IF wf.selected_node_id = Some(id) THEN None ELSE @,
           !.dragging_node_id = IF wf.dragging_node_id = Some(id) THEN None ELSE @]

\* Mutant: the drag of the removed node goes on.
remove_node_KeepsDragging(wf, id) ==
    LET kept == {c \in DOMAIN wf.connections :
                    /\ wf.connections[c].from_node_id # id
                    /\ wf.connections[c].to_node_id # id}
        removed == [wf EXCEPT
            !.nodes = Restrict(wf.nodes, (DOMAIN wf.nodes) \ {id}),
            !.connections = Restrict(wf.connections, kept),
            !.selected_node_id =
                IF wf.selected_node_id = Some(id) THEN None ELSE @]
    IN IF /\ wf.drawing_connection_state.active
          /\ wf.drawing_connection_state.source_node_id = id
       THEN [removed EXCEPT !.drawing_connection_state = ConnectionDrawingStateDefault]
       ELSE removed

remove_node(wf, id) ==
    LET kept == {c \in DOMAIN wf.connections :
                    /\ wf.connections[c].from_node_id # id
                    /\ wf.connections[c].to_node_id # id}
        removed == [wf EXCEPT
            !.nodes = Restrict(wf.nodes, (DOMAIN wf.nodes) \ {id}),
            !.connections = Restrict(wf.connections, kept),
            !.selected_node_id =
                IF wf.selected_node_id = Some(id) THEN None ELSE @,
            !.dragging_node_id =
                IF wf.dragging_node_id = Some(id) THEN None ELSE @]
    IN IF /\ wf.drawing_connection_state.active
          /\ wf.drawing_connection_state.source_node_id = id
       THEN cancel_drawing_connection(removed)
       ELSE removed

\* Mutant: no check for a self-connection.
add_connection_NoSelfCheck(wf, from_node_id, to_node_id, iter) ==
    LET conn_id == wf.next_connection_id
        inserted == [wf EXCEPT
            !.connections = Put(wf.connections, conn_id,
                                Connection(from_node_id, to_node_id)),
            !.next_connection_id = wf.next_connection_id + 1]
    IN [wf |-> SetNeedsExecution(
                   update_node_input_from_all_sources(inserted, to_node_id, iter),
                   to_node_id, TRUE),
        ok |-> TRUE,
        val |-> conn_id]

\* The workflow after the call and the Result: ok = FALSE is the Err.
\* iter orders the connections of the map after the insertion.
\* Mutant: a second connection between the same ordered pair is not added.
add_connection_Dedup(wf, from_node_id, to_node_id, iter) ==
    IF from_node_id = to_node_id
    THEN [wf |-> wf, ok |-> FALSE, val |-> -1]
    ELSE IF \E c \in DOMAIN wf.connections :
                wf.connections[c] = Connection(from_node_id, to_node_id)
    THEN [wf |-> SetNeedsExecution(wf, to_node_id, TRUE),
          ok |-> TRUE,
          val |-> CHOOSE c \in DOMAIN wf.connections :
                      wf.connections[c] = Connection(from_node_id, to_node_id)]
    ELSE LET conn_id == wf.next_connection_id
             inserted == [wf EXCEPT
                 !.connections = Put(wf.connections, conn_id,
                                     Connection(from_node_id, to_node_id)),
                 !.next_connection_id = wf.next_connection_id + 1]
         IN [wf |-> SetNeedsExecution(
                        update_node_input_from_all_sources(inserted, to_node_id, iter),
                        to_node_id, TRUE),
             ok |-> TRUE,
             val |-> conn_id]

add_connection(wf, from_node_id, to_node_id, iter) ==
    IF from_node_id = to_node_id
    THEN [wf |-> wf, ok |-> FALSE, val |-> -1]
    ELSE LET conn_id == wf.next_connection_id
             inserted == [wf EXCEPT
                 !.connections = Put(wf.connections, conn_id,
                                     Connection(from_node_id, to_node_id)),
                 !.next_connection_id = wf.next_connection_id + 1]
         IN [wf |-> SetNeedsExecution(
                        update_node_input_from_all_sources(inserted, to_node_id, iter),
                        to_node_id, TRUE),
             ok |-> TRUE,
             val |-> conn_id]

\* Workflow::default
WorkflowDefault ==
    LET empty == [nodes |-> <<>>,
                  connections |-> <<>>,
                  next_node_id |-> 0,
                  next_connection_id |-> 0,
                  selected_node_id |-> None,
                  dragging_node_id |-> None,
                  drawing_connection_state |-> ConnectionDrawingStateDefault]
        with_prompt == add_node(empty, "Prompt", 50, 100)
        with_model == add_node(with_prompt, "Model", 400, 100)
    IN add_connection(with_model, 0, 1, <<0>>).wf

\* ------------------------------------------------------ canvas coordinates
RECURSIVE Pow2(_)
Pow2(k) == IF k = 0 THEN 1 ELSE 2 * Pow2(k - 1)

Abs(i) == IF i < 0 THEN -i ELSE i

\* An f64 is a fraction <<n, d>> in lowest terms whose denominator d is a
\* power of two.
RECURSIVE Dyadic(_, _)
Dyadic(n, d) ==
    IF n = 0 THEN <<0, 1>>
    ELSE IF d > 1 /\ n % 2 = 0 THEN Dyadic(n \div 2, d \div 2)
    ELSE <<n, d>>

\* The number with a significand of Precision bits nearest to a / d, a > 0,
\* ties to the even significand; the result is a numerator and a denominator.
RECURSIVE RoundPositive(_, _, _)
RoundPositive(a, d, up) ==
    IF a < Pow2(Precision - 1) * d THEN RoundPositive(2 * a, d, 2 * up)
    ELSE IF a >= Pow2(Precision) * d THEN
         LET r == RoundPositive(a, 2 * d, up) IN <<2 * r[1], r[2]>>
    ELSE LET q == a \div d
             r == a % d
             m == IF 2 * r > d \/ (2 * r = d /\ q % 2 = 1) THEN q + 1 ELSE q
         IN <<m, up>>

\* The f64 nearest to the rational n / d, d > 0.
Round(n, d) ==
    IF n = 0 THEN <<0, 1>>
    ELSE LET r == RoundPositive(Abs(n), d, 1)
         IN Dyadic(IF n < 0 THEN -r[1] ELSE r[1], r[2])

\* An integer literal or event coordinate as an f64.
Float(i) == Round(i, 1)

\* The f64 operators +, -, * and /: the exact result, rounded.
Add(a, b) == Round((a[1] * b[2]) + (b[1] * a[2]), a[2] * b[2])
Sub(a, b) == Round((a[1] * b[2]) - (b[1] * a[2]), a[2] * b[2])
Mul(a, b) == Round(a[1] * b[1], a[2] * b[2])
Div(a, b) ==
    IF b[1] > 0 THEN Round(a[1] * b[2], a[2] * b[1])
    ELSE Round(-(a[1] * b[2]), a[2] * (-b[1]))
Less(a, b) == a[1] * b[2] < b[1] * a[2]

\* f64::clamp
clamp(x, min, max) ==
    IF Less(x, min) THEN min ELSE IF Less(max, x) THEN max ELSE x

\* The literals 0.1 and 10.0 of on_wheel.
ZoomMin == Round(1, 10)
ZoomMax == Float(10)

\* The canvas state App starts with.
CanvasStateInit ==
    [offset_x |-> Float(0), offset_y |-> Float(0), zoom |-> Float(1),
     dragging |-> FALSE,
     drag_start_x |-> Float(0), drag_start_y |-> Float(0),
     last_offset_x |-> Float(0), last_offset_y |-> Float(0)]

page_to_world_coords(canvas, page_x, page_y) ==
    <<Div(Sub(page_x, canvas.offset_x), canvas.zoom),
      Div(Sub(page_y, canvas.offset_y), canvas.zoom)>>

world_to_page_coords(canvas, world_x, world_y) ==
    <<Add(Mul(world_x, canvas.zoom), canvas.offset_x),
      Add(Mul(world_y, canvas.zoom), canvas.offset_y)>>

\* The factor on_wheel applies to the wheel delta of each WheelDelta unit.
WheelScale(unit) ==
    IF unit = "Pixels" THEN Round(-1, 100)
    ELSE IF unit = "Lines" THEN Round(-1, 20)
    ELSE Round(-1, 5)

\* on_wheel, but the offset is left where it was.
on_wheel_KeepsOffset(canvas, mouse_x, mouse_y, unit, delta_y) ==
    LET wheel_delta == Mul(delta_y, WheelScale(unit))
        zoom_factor == Add(Float(1), wheel_delta)
    IN [canvas EXCEPT
          !.zoom = clamp(Mul(canvas.zoom, zoom_factor), ZoomMin, ZoomMax)]

on_wheel(canvas, mouse_x, mouse_y, unit, delta_y) ==
    LET wheel_delta == Mul(delta_y, WheelScale(unit))
        zoom_factor == Add(Float(1), wheel_delta)
        old_zoom == canvas.zoom
        new_zoom == clamp(Mul(old_zoom, zoom_factor), ZoomMin, ZoomMax)
        world_mouse_x == Div(Sub(mouse_x, canvas.offset_x), old_zoom)
        world_mouse_y == Div(Sub(mouse_y, canvas.offset_y), old_zoom)
    IN [canvas EXCEPT
          !.offset_x = Sub(mouse_x, Mul(world_mouse_x, new_zoom)),
          !.offset_y = Sub(mouse_y, Mul(world_mouse_y, new_zoom)),
          !.zoom = new_zoom]

\* ------------------------------------------------------------ bookkeeping
\* ret records the last operation called on the store, its arguments and its
\* return value (ok = FALSE is an Err), and the nodes whose input it recomputed.
\* A task is a spawned future: pc is the await it is suspended at, order and idx
\* the for loop of run_workflow, node_id, prompt and full_response the locals of
\* execute_model_node; delivered lists the chunks received from the current
\* stream and outcome how the loop left each node of order so far.
Ret(op, a, b, ok, val, touched) ==
    [op |-> op, a |-> a, b |-> b, ok |-> ok, val |-> val, touched |-> touched]

RetInit == Ret("init", -1, -1, TRUE, -1, {})

TaskIdle ==
    [pc |-> "idle", order |-> <<>>, idx |-> 0, node_id |-> 0, prompt |-> <<>>,
     full_response |-> EmptyString, delivered |-> <<>>, outcome |-> <<>>]

OrdIdle == [pc |-> "idle", remaining |-> <<>>, result |-> <<>>]

Range(s) == {s[i] : i \in DOMAIN s}

\* The inputs the user interface supplies.
PositionsX == {50, 400}
PositionsY == {0, 100}
Letters == <<"a", "b", "c", "d", "e", "f">>
\* What a user types into the Prompt node id: nothing, or the node's letter.
PromptTexts(id) == {EmptyString, <<Letters[id + 1]>>}

\* ---------------------------------------------------- actions on the graph
\* on_add_node_from_menu
AddNode(kind, x, y) ==
    /\ workflow_state.next_node_id < MaxNodes
    /\ workflow_state' = add_node(workflow_state, kind, x, y)
    /\ ret' = Ret("add_node", -1, -1, TRUE, workflow_state.next_node_id, {})
    /\ UNCHANGED <<tasks, ord, canvas_state, producer>>

\* Which transient fields refer to node id: 1 for the selection, 2 for the
\* drag and 4 for the source of a connection being drawn, added up.
Referring(wf, id) ==
    (IF wf.selected_node_id = Some(id) THEN 1 ELSE 0)
    + (IF wf.dragging_node_id = Some(id) THEN 2 ELSE 0)
    + (IF /\ wf.drawing_connection_state.active
          /\ wf.drawing_connection_state.source_node_id = id THEN 4 ELSE 0)

\* on_delete
RemoveNode(id) ==
    /\ id \in DOMAIN workflow_state.nodes
    /\ workflow_state' = remove_node(workflow_state, id)
    /\ ret' = Ret("remove_node", id, Referring(workflow_state, id), TRUE,
                  Cardinality({c \in DOMAIN workflow_state.connections :
                      \/ workflow_state.connections[c].from_node_id = id
                      \/ workflow_state.connections[c].to_node_id = id}),
                  {})
    /\ UNCHANGED <<tasks, ord, canvas_state, producer>>

\* complete_drawing_connection calls add_connection for a source that exists;
\* the hovered target is a node on the canvas.
AddConnection(from, to) ==
    /\ from = to \/ workflow_state.next_connection_id < MaxConns
    /\ from = to \/ {from, to} \subseteq DOMAIN workflow_state.nodes
    /\ \E r \in {add_connection(workflow_state, from, to, iter) :
                  iter \in Perms((DOMAIN workflow_state.connections)
                                    \cup {workflow_state.next_connection_id})} :
          /\ workflow_state' = r.wf
          /\ ret' = Ret("add_connection", from, to, r.ok, r.val,
                        IF r.ok THEN {to} ELSE {})
    /\ UNCHANGED <<tasks, ord, canvas_state, producer>>

\* PromptNode: on_context_content_change
SetPromptOutput(id, text) ==
    /\ id \in DOMAIN workflow_state.nodes
    /\ workflow_state.nodes[id].kind = "Prompt"
    /\ \E wf \in {update_node_output(workflow_state, id, text, iter) :
                   iter \in Perms(DOMAIN workflow_state.connections)} :
          workflow_state' = wf
    /\ ret' = Ret("update_node_output", id, -1, TRUE, -1,
                  {workflow_state.connections[c].to_node_id :
                      c \in {k \in DOMAIN workflow_state.connections :
                                workflow_state.connections[k].from_node_id = id}})
    /\ UNCHANGED <<tasks, ord, canvas_state, producer>>

InitGraph ==
    /\ workflow_state = WorkflowDefault
    /\ tasks = [t \in TaskIds |-> TaskIdle]
    /\ ord = OrdIdle
    /\ ret = RetInit
    /\ canvas_state = CanvasStateInit
    /\ producer = ProducerIdle

NextGraph ==
    \/ \E kind \in Kinds, x \in PositionsX, y \in PositionsY : AddNode(kind, x, y)
    \/ \E id \in NodeIds : RemoveNode(id)
    \/ \E from \in NodeIds, to \in NodeIds : AddConnection(from, to)
    \/ \E id \in NodeIds : \E text \in PromptTexts(id) : SetPromptOutput(id, text)

SpecGraph == InitGraph /\ [][NextGraph]_vars

\* --------------------------------------------------------- execution_order
\* Mutant: every Model node is scheduled, needing execution or not.
ModelNodeIds_All(wf) ==
    {id \in DOMAIN wf.nodes : wf.nodes[id].kind = "Model"}

\* model_nodes: the Model nodes that need execution.
ModelNodeIds(wf) ==
    {id \in DOMAIN wf.nodes :
        wf.nodes[id].kind = "Model" /\ wf.nodes[id].needs_execution}

\* Mutant: a connection from any node counts as a dependency.
Dependencies_AnySource(wf) ==
    [id \in ModelNodeIds(wf) |->
        {wf.connections[c].from_node_id :
            c \in {k \in DOMAIN wf.connections : wf.connections[k].to_node_id = id}}]

\* Mutant: the dependency is recorded on the source of the connection.
Dependencies_Reversed(wf) ==
    [id \in ModelNodeIds(wf) |->
        {wf.connections[c].to_node_id :
            c \in {k \in DOMAIN wf.connections :
                      /\ wf.connections[k].from_node_id = id
                      /\ wf.connections[k].to_node_id \in ModelNodeIds(wf)}}]

\* dependencies: node id -> the model nodes it depends on.
Dependencies(wf) ==
    [id \in ModelNodeIds(wf) |->
        {wf.connections[c].from_node_id :
            c \in {k \in DOMAIN wf.connections :
                      /\ wf.connections[k].to_node_id = id
                      /\ wf.connections[k].from_node_id \in ModelNodeIds(wf)}}]

\* ready: the nodes of remaining with no dependencies.
ReadyIds(remaining) == {id \in DOMAIN remaining : remaining[id] = {}}

\* Mutant: once a node is ready, the others are taken to wait for nothing.
Complete_DropsAll(remaining, ready) ==
    [id \in (DOMAIN remaining) \ ready |-> {}]

\* remaining after the ready nodes are removed from it and from the other
\* nodes' dependencies.
Complete(remaining, ready) ==
    [id \in (DOMAIN remaining) \ ready |-> remaining[id] \ ready]

\* Every value the while loop can return from (remaining, result): ready is
\* collected in the iteration order of the HashMap.
RECURSIVE TopologicalSorts(_, _)
TopologicalSorts(remaining, result) ==
    IF DOMAIN remaining = {} THEN {result}
    ELSE IF ReadyIds(remaining) = {} THEN {result}
    ELSE UNION {TopologicalSorts(Complete(remaining, ReadyIds(remaining)), result \o p) :
                    p \in Perms(ReadyIds(remaining))}

\* The values execution_order can return.
execution_order(wf) == TopologicalSorts(Dependencies(wf), <<>>)

\* execution_order, one loop iteration per step.
OrderStart ==
    /\ ord.pc = "idle"
    /\ ord' = [pc |-> "loop", remaining |-> Dependencies(workflow_state), result |-> <<>>]
    /\ UNCHANGED <<workflow_state, tasks, ret, canvas_state, producer>>

\* Mutant: no break when nothing is ready.
OrderLoop_NoBreak ==
    /\ ord.pc = "loop"
    /\ IF DOMAIN ord.remaining = {}
       THEN ord' = [ord EXCEPT !.pc = "done"]
       ELSE \E p \in Perms(ReadyIds(ord.remaining)) :
               ord' = [ord EXCEPT
                          !.result = ord.result \o p,
                          !.remaining = Complete(ord.remaining, ReadyIds(ord.remaining))]
    /\ UNCHANGED <<workflow_state, tasks, ret, canvas_state, producer>>

OrderLoop ==
    /\ ord.pc = "loop"
    /\ IF DOMAIN ord.remaining = {}
       THEN ord' = [ord EXCEPT !.pc = "done"]
       ELSE IF ReadyIds(ord.remaining) = {}
       THEN ord' = [ord EXCEPT !.pc = "done"]
       ELSE \E p \in Perms(ReadyIds(ord.remaining)) :
               ord' = [ord EXCEPT
                          !.result = ord.result \o p,
                          !.remaining = Complete(ord.remaining, ReadyIds(ord.remaining))]
    /\ UNCHANGED <<workflow_state, tasks, ret, canvas_state, producer>>

\* ------------------------------------------------------- model execution
Whitespace == {" ", "\n", "\t"}

\* input.trim().is_empty()
TrimIsEmpty(str) == \A i \in 1 .. Len(str) : str[i] \in Whitespace

\* Mutant: a blank input is sent as a user turn.
prepare_prompt_NoTrim(node) ==
    IF node.kind # "Model" THEN [ok |-> FALSE, messages |-> <<>>]
    ELSE LET leading == IF IsSome(node.input)
                        THEN <<ChatMessage("user", Unwrap(node.input), None)>>
                        ELSE <<>>
             messages == leading \o node.messages
         IN IF Len(messages) = 0 THEN [ok |-> FALSE, messages |-> <<>>]
            ELSE [ok |-> TRUE, messages |-> messages]

\* Node::prepare_prompt: ok = FALSE is the Err.
prepare_prompt(node) ==
    IF node.kind # "Model" THEN [ok |-> FALSE, messages |-> <<>>]
    ELSE LET leading == IF IsSome(node.input) /\ ~TrimIsEmpty(Unwrap(node.input))
                        THEN <<ChatMessage("user", Unwrap(node.input), None)>>
                        ELSE <<>>
             messages == leading \o node.messages
         IN IF Len(messages) = 0 THEN [ok |-> FALSE, messages |-> <<>>]
            ELSE [ok |-> TRUE, messages |-> messages]

SetIsExecuting(wf, id, b) ==
    IF id \in DOMAIN wf.nodes
    THEN [wf EXCEPT !.nodes[id].is_executing = b]
    ELSE wf

\* Mutant: the Err branch returns without clearing is_executing.
ExecuteErr_KeepsExecuting(wf, node_id) == wf

\* execute_model_node, generate returned Err.
ExecuteErr(wf, node_id) == SetIsExecuting(wf, node_id, FALSE)

\* execute_model_node, generate returned the receiver: the assistant turn is
\* pushed.
ExecuteOpen(wf, node_id) ==
    IF node_id \in DOMAIN wf.nodes /\ wf.nodes[node_id].kind = "Model"
    THEN [wf EXCEPT !.nodes[node_id].messages =
                        Append(@, ChatMessage("assistant", EmptyString, None))]
    ELSE wf

\* Mutant: the content fragment replaces the content of the turn.
ApplyToLast_Overwrites(last_msg, message_chunk) ==
    [last_msg EXCEPT
        !.thinking = IF IsSome(message_chunk.thinking)
                     THEN IF IsSome(last_msg.thinking)
                          THEN Some(Unwrap(last_msg.thinking) \o Unwrap(message_chunk.thinking))
                          ELSE message_chunk.thinking
                     ELSE last_msg.thinking,
        !.content = IF message_chunk.content # EmptyString
                    THEN message_chunk.content
                    ELSE last_msg.content]

\* The body of if let Some(last_msg) = messages.last_mut().
ApplyToLast(last_msg, message_chunk) ==
    [last_msg EXCEPT
        !.thinking = IF IsSome(message_chunk.thinking)
                     THEN IF IsSome(last_msg.thinking)
                          THEN Some(Unwrap(last_msg.thinking) \o Unwrap(message_chunk.thinking))
                          ELSE message_chunk.thinking
                     ELSE last_msg.thinking,
        !.content = IF message_chunk.content # EmptyString
                    THEN last_msg.content \o message_chunk.content
                    ELSE last_msg.content]

\* Mutant: the fragment is published instead of the running response.
ExecuteChunk_PublishesFragment(wf, node_id, full_response, message_chunk, iter) ==
    LET has_last == /\ node_id \in DOMAIN wf.nodes
                    /\ wf.nodes[node_id].kind = "Model"
                    /\ Len(wf.nodes[node_id].messages) > 0
        appended == IF has_last
                    THEN [wf EXCEPT !.nodes[node_id].messages[Len(wf.nodes[node_id].messages)] =
                                        ApplyToLast(@, message_chunk)]
                    ELSE wf
        response == IF has_last THEN full_response \o message_chunk.content
                    ELSE full_response
    IN [wf |-> update_node_output(appended, node_id, message_chunk.content, iter),
        full_response |-> response]

\* execute_model_node, one iteration of while let Some(message_chunk): the
\* workflow and the local full_response after it.
ExecuteChunk(wf, node_id, full_response, message_chunk, iter) ==
    LET has_last == /\ node_id \in DOMAIN wf.nodes
                    /\ wf.nodes[node_id].kind = "Model"
                    /\ Len(wf.nodes[node_id].messages) > 0
        appended == IF has_last
                    THEN [wf EXCEPT !.nodes[node_id].messages[Len(wf.nodes[node_id].messages)] =
                                        ApplyToLast(@, message_chunk)]
                    ELSE wf
        response == IF has_last THEN full_response \o message_chunk.content
                    ELSE full_response
    IN [wf |-> update_node_output(appended, node_id, response, iter),
        full_response |-> response]

\* Mutant: the end of the stream leaves is_executing set.
ExecuteEnd_KeepsExecuting(wf, node_id) == wf

\* execute_model_node, recv returned None.
ExecuteEnd(wf, node_id) == SetIsExecuting(wf, node_id, FALSE)

\* The chunks a provider sends: content, thinking, or both.
Chunks ==
    {[content |-> <<"x">>, thinking |-> None],
     [content |-> EmptyString, thinking |-> Some(<<"t">>)],
     [content |-> <<"y">>, thinking |-> Some(<<"u">>)]}

\* run_workflow: the for loop from order[idx] up to the next await (the request
\* of execute_model_node) or to its end.
RECURSIVE RunLoop(_, _)
RunLoop(wf, task) ==
    IF task.idx > Len(task.order)
    THEN [wf |-> wf, task |-> [task EXCEPT !.pc = "done"]]
    ELSE LET node_id == task.order[task.idx]
             skip(how) == [task EXCEPT !.idx = task.idx + 1,
                                       !.outcome = Append(task.outcome, how)]
         IN IF node_id \notin DOMAIN wf.nodes THEN RunLoop(wf, skip("missing"))
            ELSE IF wf.nodes[node_id].kind # "Model" THEN RunLoop(wf, skip("missing"))
            ELSE LET started == SetIsExecuting(wf, node_id, TRUE)
                     prepared == prepare_prompt(started.nodes[node_id])
                 IN IF prepared.ok
                    THEN [wf |-> started,
                          task |-> [task EXCEPT !.pc = "request",
                                                !.node_id = node_id,
                                                !.prompt = prepared.messages,
                                                !.full_response = EmptyString,
                                                !.delivered = <<>>]]
                    ELSE RunLoop(SetIsExecuting(started, node_id, FALSE),
                                 skip("prepare_failed"))

\* The loop after execute_model_node returned for order[idx].
Continue(wf, task, how) ==
    RunLoop(wf, [task EXCEPT !.idx = task.idx + 1,
                             !.outcome = Append(task.outcome, how)])

\* run_workflow up to its first await.
RunWorkflow(t) ==
    /\ tasks[t].pc = "idle"
    /\ \E order \in execution_order(workflow_state) :
          LET r == RunLoop(workflow_state, [TaskIdle EXCEPT !.order = order, !.idx = 1])
          IN /\ workflow_state' = r.wf
             /\ tasks' = [tasks EXCEPT ![t] = r.task]
    /\ ret' = Ret("run_workflow", t, -1, TRUE, -1, {})
    /\ UNCHANGED <<ord, canvas_state, producer>>

\* Mutant: the run ends when a request fails.
RunRequestFailed_Aborts(t) ==
    /\ tasks[t].pc = "request"
    /\ workflow_state' = ExecuteErr(workflow_state, tasks[t].node_id)
    /\ tasks' = [tasks EXCEPT ![t].pc = "done",
                              ![t].outcome = Append(@, "request_failed")]
    /\ ret' = Ret("request_failed", t, tasks[t].node_id, FALSE, -1, {})
    /\ UNCHANGED <<ord, canvas_state, producer>>

\* generate(...).await returned Err.
RunRequestFailed(t) ==
    /\ tasks[t].pc = "request"
    /\ LET r == Continue(ExecuteErr(workflow_state, tasks[t].node_id), tasks[t],
                         "request_failed")
       IN /\ workflow_state' = r.wf
          /\ tasks' = [tasks EXCEPT ![t] = r.task]
    /\ ret' = Ret("request_failed", t, tasks[t].node_id, FALSE, -1, {})
    /\ UNCHANGED <<ord, canvas_state, producer>>

\* generate(...).await returned Ok(receiver).
RunRequestOk(t) ==
    /\ tasks[t].pc = "request"
    /\ workflow_state' = ExecuteOpen(workflow_state, tasks[t].node_id)
    /\ tasks' = [tasks EXCEPT ![t].pc = "stream"]
    /\ ret' = Ret("stream_open", t, tasks[t].node_id, TRUE, -1, {})
    /\ UNCHANGED <<ord, canvas_state, producer>>

\* receiver.recv().await returned Some(message_chunk).
RunRecvChunk(t, message_chunk) ==
    /\ tasks[t].pc = "stream"
    /\ Len(tasks[t].delivered) < MaxChunks
    /\ \E r \in {ExecuteChunk(workflow_state, tasks[t].node_id, tasks[t].full_response,
                              message_chunk, iter) :
                    iter \in Perms(DOMAIN workflow_state.connections)} :
          /\ workflow_state' = r.wf
          /\ tasks' = [tasks EXCEPT ![t].full_response = r.full_response,
                                    ![t].delivered = Append(@, message_chunk)]
    /\ ret' = Ret("chunk", t, tasks[t].node_id, TRUE, -1,
                  {workflow_state.connections[c].to_node_id :
                      c \in {k \in DOMAIN workflow_state.connections :
                                workflow_state.connections[k].from_node_id = tasks[t].node_id}})
    /\ UNCHANGED <<ord, canvas_state, producer>>

\* Why the producer dropped the sender: the response body ended (or the done
\* frame came), or response.chunk() returned Err in the middle of the body.
StreamEnds == {"closed", "failed"}

\* receiver.recv().await returned None: the sender is dropped. ret.ok tells
\* whether the body ended without error, ret.val how many chunks were applied.
RunRecvNone(t) ==
    /\ tasks[t].pc = "stream"
    /\ LET r == Continue(ExecuteEnd(workflow_state, tasks[t].node_id), tasks[t], "streamed")
       IN /\ workflow_state' = r.wf
          /\ tasks' = [tasks EXCEPT ![t] = r.task]
    /\ \E how \in StreamEnds :
          ret' = Ret("stream_end", t, tasks[t].node_id, how = "closed",
                     Len(tasks[t].delivered), {})
    /\ UNCHANGED <<ord, canvas_state, producer>>

\* ------------------------------------------------------- built workflows
\* Workflows a user has built: every node placed, Prompt nodes edited to a
\* letter or to the empty text,
\* Model nodes fresh or already executed after a chat message, then connected.
Pairs == {e \in NodeIds \X NodeIds : e[1] # e[2]}
EdgeSets == {E \in SUBSET Pairs : Cardinality(E) <= MaxConns}

AnOrder(S) == CHOOSE p \in Perms(S) : TRUE

ConnectionsOf(E) ==
    [i \in 0 .. (Cardinality(E) - 1) |->
        Connection(AnOrder(E)[i + 1][1], AnOrder(E)[i + 1][2])]

BuiltNode(class, id) ==
    LET fresh == NodeNew(IF class \in {"Prompt", "PromptEmpty"} THEN "Prompt" ELSE "Model",
                         50, 100 * id)
    IN CASE class = "Prompt" ->
              [fresh EXCEPT !.output = Some(<<Letters[id + 1]>>),
                            !.needs_execution = FALSE]
         [] class = "PromptEmpty" ->
              [fresh EXCEPT !.output = Some(EmptyString),
                            !.needs_execution = FALSE]
         [] class = "ModelDone" ->
              [fresh EXCEPT !.output = Some(<<Letters[id + 1]>>),
                            !.needs_execution = FALSE,
                            !.messages = <<ChatMessage("user", <<"q">>, None),
                                           ChatMessage("assistant", <<Letters[id + 1]>>, None)>>]
         [] OTHER -> fresh

RECURSIVE RecomputeInputs(_, _, _)
RecomputeInputs(wf, ids, iter) ==
    IF Len(ids) = 0 THEN wf
    ELSE RecomputeInputs(update_node_input_from_all_sources(wf, ids[1], iter),
                         Tail(ids), iter)

BuiltWorkflow(classes, E) ==
    LET wf == [nodes |-> [id \in NodeIds |-> BuiltNode(classes[id], id)],
               connections |-> ConnectionsOf(E),
               next_node_id |-> MaxNodes,
               next_connection_id |-> Cardinality(E),
               selected_node_id |-> None,
               dragging_node_id |-> None,
               drawing_connection_state |-> ConnectionDrawingStateDefault]
    IN RecomputeInputs(wf, AnOrder(NodeIds), AnOrder(DOMAIN wf.connections))

\* The executed Model nodes were executed in some order: each published its
\* output and so marked its targets, which were executed later.
RECURSIVE Reaches(_, _, _, _)
Reaches(E, a, b, n) ==
    IF n = 0 THEN FALSE
    ELSE \/ <<a, b>> \in E
         \/ \E m \in NodeIds : <<a, m>> \in E /\ Reaches(E, m, b, n - 1)

Buildable(classes, E) ==
    LET done == {id \in NodeIds : classes[id] = "ModelDone"}
        among == {e \in E : e[1] \in done /\ e[2] \in done}
    IN \A id \in done : ~Reaches(among, id, id, MaxNodes)

OrderClasses == {"Prompt", "Model", "ModelDone"}

InitOrder ==
    /\ \E classes \in [NodeIds -> OrderClasses], E \in EdgeSets :
          /\ Buildable(classes, E)
          /\ workflow_state = BuiltWorkflow(classes, E)
    /\ tasks = [t \in TaskIds |-> TaskIdle]
    /\ ord = OrdIdle
    /\ ret = RetInit
    /\ canvas_state = CanvasStateInit
    /\ producer = ProducerIdle

NextOrder == OrderStart \/ OrderLoop

SpecOrder == InitOrder /\ [][NextOrder]_vars

\* The loop is run to its end once execution_order is called.
FairSpecOrder == SpecOrder /\ WF_vars(NextOrder)

\* One scheduled run of a built workflow; the user may delete nodes meanwhile.
RunClasses == {"Prompt", "PromptEmpty", "Model", "ModelDone"}

InitRun ==
    /\ \E classes \in [NodeIds -> RunClasses], E \in EdgeSets :
          /\ Buildable(classes, E)
          /\ workflow_state = BuiltWorkflow(classes, E)
    /\ tasks = [t \in TaskIds |-> TaskIdle]
    /\ ord = OrdIdle
    /\ ret = RetInit
    /\ canvas_state = CanvasStateInit
    /\ producer = ProducerIdle

NextRun ==
    \/ RunWorkflow(1)
    \/ RunRequestFailed(1)
    \/ RunRequestOk(1)
    \/ \E message_chunk \in Chunks : RunRecvChunk(1, message_chunk)
    \/ RunRecvNone(1)
    \/ \E id \in NodeIds : RemoveNode(id)

SpecRun == InitRun /\ [][NextRun]_vars

\* =================================================================== claims
\* Vocabulary of the claims, stated on the store without the code's helpers.
Nodes == workflow_state.nodes
Conns == workflow_state.connections

HasNode(id) == id \in DOMAIN Nodes

\* The connections into t whose source node exists and has an output.
Contributing(t) ==
    {c \in DOMAIN Conns :
        /\ Conns[c].to_node_id = t
        /\ Conns[c].from_node_id \in DOMAIN Nodes
        /\ Nodes[Conns[c].from_node_id].output # None}

\* The connections into t whose source has an output that is not the empty string.
ContributingNonEmpty(t) ==
    {c \in Contributing(t) : Nodes[Conns[c].from_node_id].output # Some(EmptyString)}

\* Node a lies before node b: above it, or level with it and not to its right.
Before(a, b) ==
    \/ Nodes[a].position_y < Nodes[b].position_y
    \/ /\ Nodes[a].position_y = Nodes[b].position_y
       /\ Nodes[a].position_x <= Nodes[b].position_x

\* The outputs of the nodes srcs[1], srcs[2], ... with a blank line between.
RECURSIVE BlankLineJoined(_)
BlankLineJoined(srcs) ==
    IF Len(srcs) = 0 THEN <<>>
    ELSE IF Len(srcs) = 1 THEN Nodes[srcs[1]].output[1]
    ELSE BlankLineJoined(Front(srcs)) \o <<"\n", "\n">> \o Nodes[Last(srcs)].output[1]

SourcesAlong(order) == [i \in 1 .. Len(order) |-> Conns[order[i]].from_node_id]

Ascending(srcs) == \A i, j \in 1 .. Len(srcs) : i < j => Before(srcs[i], srcs[j])

DistinctPositions(S) ==
    \A a, b \in S : a # b =>
        \/ Nodes[a].position_y # Nodes[b].position_y
        \/ Nodes[a].position_x # Nodes[b].position_x

\* C1: add_connection(n, n) returns an error for every node id n and leaves the
\* whole store unchanged: connections, the connection id counter, and every
\* node's input and needs_execution are as before the call.
C1_SelfLoopRejected ==
    [][\A n \in NodeIds :
          (ret'.op = "add_connection" /\ ret'.a = n /\ ret'.b = n)
              => /\ ret'.ok = FALSE
                 /\ workflow_state' = workflow_state]_vars

C1_Witness ==
    /\ ret.op = "add_connection"
    /\ ret.a = ret.b
    /\ ret.ok = FALSE
    /\ HasNode(ret.a)
    /\ Cardinality(DOMAIN Conns) >= 2

\* C2: after remove_node(id) the node id is absent, no remaining connection has
\* id as its source or target, and every other node and every connection that
\* does not touch id is still present.
C2_RemoveNodeCascades ==
    [][\A id \in NodeIds :
          (ret'.op = "remove_node" /\ ret'.a = id)
              => /\ id \notin DOMAIN workflow_state'.nodes
                 /\ \A c \in DOMAIN workflow_state'.connections :
                       /\ workflow_state'.connections[c].from_node_id # id
                       /\ workflow_state'.connections[c].to_node_id # id
                 /\ \A m \in (DOMAIN Nodes) \ {id} : m \in DOMAIN workflow_state'.nodes
                 /\ \A c \in DOMAIN Conns :
                       (Conns[c].from_node_id # id /\ Conns[c].to_node_id # id)
                           => /\ c \in DOMAIN workflow_state'.connections
                              /\ workflow_state'.connections[c] = Conns[c]]_vars

\* remove_node removed a node with an incoming and an outgoing connection while
\* another connection and two other nodes stay.
C2_Witness ==
    /\ ret.op = "remove_node"
    /\ ret.val >= 2
    /\ Cardinality(DOMAIN Conns) >= 1
    /\ Cardinality(DOMAIN Nodes) >= 2

\* C3: a recomputed input is the outputs of the contributing sources in
\* ascending (position_y, position_x) order with a blank line between them; when
\* the sources have distinct positions it is determined by the source nodes
\* alone, whatever the connection ids.
C3_InputOrderedByPosition ==
    \A t \in ret.touched :
        (HasNode(t) /\ Contributing(t) # {}) =>
            LET srcs == {Conns[c].from_node_id : c \in Contributing(t)}
            IN /\ \E order \in Perms(Contributing(t)) :
                     /\ Ascending(SourcesAlong(order))
                     /\ Nodes[t].input = Some(BlankLineJoined(SourcesAlong(order)))
               /\ (Cardinality(srcs) = Cardinality(Contributing(t))
                       /\ DistinctPositions(srcs))
                     => \A s \in Perms(srcs) :
                           Ascending(s) => Nodes[t].input = Some(BlankLineJoined(s))

\* A recomputed target with two sources where the connection with the larger id
\* comes from the source that lies first, both with a non-empty output.
C3_Witness ==
    \E t \in ret.touched : \E c1, c2 \in Contributing(t) :
        /\ HasNode(t)
        /\ c1 < c2
        /\ ~Before(Conns[c1].from_node_id, Conns[c2].from_node_id)
        /\ Nodes[Conns[c1].from_node_id].output # Some(EmptyString)
        /\ Nodes[Conns[c2].from_node_id].output # Some(EmptyString)

\* C4 (as amended): aggregation counts exactly the connections whose source
\* exists and has an output, the empty string included; a source without an
\* output contributes nothing, and the input is None exactly when no source has
\* an output.
C4_CountsSourcesWithOutput ==
    \A t \in ret.touched :
        HasNode(t) =>
            /\ Nodes[t].input = None <=> Contributing(t) = {}
            /\ Contributing(t) # {} =>
                  \E order \in Perms(Contributing(t)) :
                      Nodes[t].input = Some(BlankLineJoined(SourcesAlong(order)))

\* C4 (as stated): only sources with an output that is not the empty string
\* count, and the input is None exactly when there is none.
C4_Original ==
    \A t \in ret.touched :
        HasNode(t) =>
            /\ Nodes[t].input = None <=> ContributingNonEmpty(t) = {}
            /\ ContributingNonEmpty(t) # {} =>
                  \E order \in Perms(ContributingNonEmpty(t)) :
                      Nodes[t].input = Some(BlankLineJoined(SourcesAlong(order)))

\* A recomputed target with a source that has no output and a source that has
\* one.
C4_Witness ==
    \E t \in ret.touched : \E c1, c2 \in DOMAIN Conns :
        /\ HasNode(t)
        /\ Conns[c1].to_node_id = t /\ Conns[c2].to_node_id = t
        /\ HasNode(Conns[c1].from_node_id)
        /\ Nodes[Conns[c1].from_node_id].output = None
        /\ c2 \in ContributingNonEmpty(t)
        /\ Nodes[t].input = Nodes[Conns[c2].from_node_id].output

\* ------------------------------------------------- claims on the scheduler
Eligible == {id \in DOMAIN Nodes : Nodes[id].kind = "Model" /\ Nodes[id].needs_execution}

\* The scheduling edges: connections between eligible nodes.
EligibleEdges ==
    {<<Conns[c].from_node_id, Conns[c].to_node_id>> :
        c \in {k \in DOMAIN Conns :
                  Conns[k].from_node_id \in Eligible /\ Conns[k].to_node_id \in Eligible}}

\* b can be reached from a along one or more scheduling edges.
RECURSIVE PathWithin(_, _, _)
PathWithin(a, b, n) ==
    /\ n > 0
    /\ \/ <<a, b>> \in EligibleEdges
       \/ \E m \in Eligible : <<a, m>> \in EligibleEdges /\ PathWithin(m, b, n - 1)

OnCycle(id) == PathWithin(id, id, Cardinality(Eligible))

IndexOf(seq, v) == CHOOSE i \in 1 .. Len(seq) : seq[i] = v

\* C6: execution_order returns only Model nodes with needs_execution, lists no
\* node twice, and puts the source of every connection between two returned
\* eligible nodes before its target.
C6_OrderRespectsDependencies ==
    ord.pc = "done" =>
        /\ Range(ord.result) \subseteq Eligible
        /\ \A i, j \in 1 .. Len(ord.result) : i # j => ord.result[i] # ord.result[j]
        /\ \A e \in EligibleEdges :
              (e[1] \in Range(ord.result) /\ e[2] \in Range(ord.result))
                  => IndexOf(ord.result, e[1]) < IndexOf(ord.result, e[2])

\* A finished order of three nodes along a chain of two connections.
C6_Witness ==
    /\ ord.pc = "done"
    /\ Len(ord.result) >= 3
    /\ Cardinality(EligibleEdges) >= 2

\* C7: execution_order terminates on every graph, cycles of eligible nodes
\* included, and returns no node that lies on such a cycle.
C7_TerminatesSkippingCycles ==
    /\ <>(ord.pc = "done")
    /\ [](ord.pc = "done" => \A id \in Eligible : OnCycle(id) => id \notin Range(ord.result))

\* A finished order on a graph with a cycle of eligible nodes and a returned node.
C7_Witness ==
    /\ ord.pc = "done"
    /\ \E id \in Eligible : OnCycle(id)
    /\ Len(ord.result) >= 1

\* C8: without a cycle among the eligible nodes, execution_order contains every
\* eligible node exactly once, whatever connections they have with ineligible
\* nodes.
C8_AcyclicOrderComplete ==
    (ord.pc = "done" /\ \A id \in Eligible : ~OnCycle(id)) =>
        /\ Range(ord.result) = Eligible
        /\ Len(ord.result) = Cardinality(Eligible)

\* A finished complete order of two eligible nodes, one fed by a Model node that
\* does not need execution and one feeding a Prompt node.
C8_Witness ==
    /\ ord.pc = "done"
    /\ \A id \in Eligible : ~OnCycle(id)
    /\ Len(ord.result) >= 2
    /\ \E c \in DOMAIN Conns :
          /\ Conns[c].to_node_id \in Eligible
          /\ Nodes[Conns[c].from_node_id].kind = "Model"
          /\ ~Nodes[Conns[c].from_node_id].needs_execution
    /\ \E c \in DOMAIN Conns :
          /\ Conns[c].from_node_id \in Eligible
          /\ Conns[c].to_node_id \notin Eligible

\* -------------------------------------------------- claims on the execution
RECURSIVE ContentOf(_)
ContentOf(chunks) ==
    IF Len(chunks) = 0 THEN <<>> ELSE chunks[1].content \o ContentOf(Tail(chunks))

\* The thinking fragments of the chunks in order: None when no chunk has one.
RECURSIVE ThinkingOf(_)
ThinkingOf(chunks) ==
    IF Len(chunks) = 0 THEN <<>>
    ELSE LET rest == ThinkingOf(Tail(chunks))
         IN IF chunks[1].thinking = <<>> THEN rest
            ELSE IF rest = <<>> THEN chunks[1].thinking
            ELSE <<chunks[1].thinking[1] \o rest[1]>>

Streaming(t) == tasks[t].pc = "stream" /\ HasNode(tasks[t].node_id)

\* After the first k chunks of the stream of task t the output is the content
\* of those chunks in order, and the last turn of the history is the assistant
\* turn with that content and the thinking of those chunks.
Accumulated(t) ==
    LET node == Nodes[tasks[t].node_id]
        d == tasks[t].delivered
    IN /\ Len(node.messages) > 0
       /\ Last(node.messages).role = "assistant"
       /\ Last(node.messages).content = ContentOf(d)
       /\ Last(node.messages).thinking = ThinkingOf(d)
       /\ Len(d) >= 1 => node.output = <<ContentOf(d)>>

\* Task t receives a chunk without content in this step.
ThinkingOnlyChunk(t) ==
    /\ Streaming(t)
    /\ tasks'[t].pc = "stream"
    /\ Len(tasks'[t].delivered) = Len(tasks[t].delivered) + 1
    /\ Last(tasks'[t].delivered).content = <<>>

\* C5 (as amended): while a stream is applied, after the first k chunks the
\* output, the assistant turn's content and its thinking are the concatenations
\* of the fragments of those k chunks; a thinking-only chunk after the first
\* chunk leaves the output unchanged, and a thinking-only first chunk sets the
\* output to the empty string.
C5_StreamAccumulates ==
    /\ [](\A t \in TaskIds : Streaming(t) => Accumulated(t))
    /\ [][\A t \in TaskIds : ThinkingOnlyChunk(t) =>
              /\ Len(tasks[t].delivered) >= 1 =>
                    workflow_state'.nodes[tasks[t].node_id].output
                        = Nodes[tasks[t].node_id].output
              /\ Len(tasks[t].delivered) = 0 =>
                    workflow_state'.nodes[tasks[t].node_id].output = <<<<>>>>]_vars

\* C5 (as stated): the same accumulation, and every thinking-only chunk leaves
\* the output unchanged.
C5_Original ==
    /\ [](\A t \in TaskIds : Streaming(t) => Accumulated(t))
    /\ [][\A t \in TaskIds : ThinkingOnlyChunk(t) =>
              workflow_state'.nodes[tasks[t].node_id].output
                  = Nodes[tasks[t].node_id].output]_vars

\* A stream that delivered content, then thinking only.
C5_Witness ==
    \E t \in TaskIds :
        /\ Streaming(t)
        /\ Len(tasks[t].delivered) = 2
        /\ tasks[t].delivered[1].content # <<>>
        /\ tasks[t].delivered[2].content = <<>>
        /\ Nodes[tasks[t].node_id].output = <<tasks[t].delivered[1].content>>

Failed == {"prepare_failed", "request_failed"}

\* C9: a node whose prompt preparation or provider request fails does not stop
\* a scheduled run: the run ends only after every node of the computed order
\* has been attempted.
C9_RunContinuesAfterFailure ==
    \A t \in TaskIds :
        /\ Len(tasks[t].outcome) <= Len(tasks[t].order)
        /\ tasks[t].pc = "done" => Len(tasks[t].outcome) = Len(tasks[t].order)
        /\ tasks[t].pc \in {"request", "stream"} =>
              /\ tasks[t].idx = Len(tasks[t].outcome) + 1
              /\ tasks[t].node_id = tasks[t].order[tasks[t].idx]

\* A finished run whose first node's request failed and whose second node was
\* streamed to the end.
C9_Witness ==
    \E t \in TaskIds :
        /\ tasks[t].pc = "done"
        /\ Len(tasks[t].outcome) = 2
        /\ tasks[t].outcome[1] = "request_failed"
        /\ tasks[t].outcome[2] = "streamed"

\* Task t's request fails in this step for a node that exists.
RequestFails(t) ==
    /\ tasks[t].pc = "request"
    /\ HasNode(tasks[t].node_id)
    /\ Len(tasks'[t].outcome) > Len(tasks[t].outcome)
    /\ tasks'[t].outcome[Len(tasks[t].outcome) + 1] = "request_failed"

IsSuffix(s, whole) ==
    /\ Len(s) <= Len(whole)
    /\ s = SubSeq(whole, Len(whole) - Len(s) + 1, Len(whole))

\* C10: when the provider request of a scheduled node fails before any stream
\* is yielded, the node ends with is_executing = false and needs_execution =
\* true, and its history is the one the prompt was prepared from: no assistant
\* turn was appended.
C10_RequestFailureLeavesNodeRetryable ==
    [][\A t \in TaskIds : RequestFails(t) =>
          LET after == workflow_state'.nodes[tasks[t].node_id]
          IN /\ after.is_executing = FALSE
             /\ after.needs_execution = TRUE
             /\ after.messages = Nodes[tasks[t].node_id].messages
             /\ IsSuffix(after.messages, tasks[t].prompt)
             /\ \A i \in 1 .. Len(after.messages) :
                   after.messages[i].role = "assistant"
                       => after.messages[i] \in Range(tasks[t].prompt)]_vars

\* A failed request, after which the node is idle and still needs execution.
C10_Witness ==
    /\ ret.op = "request_failed"
    /\ HasNode(ret.b)
    /\ ~Nodes[ret.b].is_executing
    /\ Nodes[ret.b].needs_execution
    /\ Nodes[ret.b].input # None

\* Task t's stream ends in this step because the provider failed after at
\* least one chunk was applied, and the node exists.
StreamFails(t) ==
    /\ Streaming(t)
    /\ Len(tasks[t].delivered) >= 1
    /\ ret'.op = "stream_end" /\ ret'.a = t /\ ~ret'.ok
    /\ Len(tasks'[t].outcome) > Len(tasks[t].outcome)

\* C11 (as stated): when the provider fails during the stream, after one or
\* more chunks were applied, the node ends with is_executing = false,
\* needs_execution = true and its history holds no assistant turn of this
\* execution: it is the history the prompt was prepared from.
C11_Original ==
    [][\A t \in TaskIds : StreamFails(t) =>
          LET after == workflow_state'.nodes[tasks[t].node_id]
          IN /\ after.is_executing = FALSE
             /\ after.needs_execution = TRUE
             /\ IsSuffix(after.messages, tasks[t].prompt)]_vars

\* C11, what the code does: a failure in the middle of the body closes the
\* channel like its end does, so the node ends with is_executing = false,
\* needs_execution = false, and the partial assistant turn as the last turn of
\* its history.
C11_MidStreamFailureIsAClose ==
    [][\A t \in TaskIds : StreamFails(t) =>
          LET after == workflow_state'.nodes[tasks[t].node_id]
          IN /\ after.is_executing = FALSE
             /\ after.needs_execution = FALSE
             /\ Len(after.messages) >= 1
             /\ IsSuffix(Front(after.messages), tasks[t].prompt)
             /\ Last(after.messages).role = "assistant"
             /\ Last(after.messages).content = ContentOf(tasks[t].delivered)
             /\ after.output = <<ContentOf(tasks[t].delivered)>>]_vars

\* A stream that failed after a content chunk: the node is marked executed and
\* keeps the partial turn.
C11_Witness ==
    /\ ret.op = "stream_end" /\ ~ret.ok /\ ret.val >= 1
    /\ HasNode(ret.b)
    /\ ~Nodes[ret.b].needs_execution
    /\ Last(Nodes[ret.b].messages).role = "assistant"
    /\ Last(Nodes[ret.b].messages).content # EmptyString

\* The for loop of task t handles entry i of its order in this step.
Handles(t, i) ==
    /\ tasks[t].pc \in {"idle", "request", "stream"}
    /\ i \in 1 .. Len(tasks'[t].order)
    /\ i > Len(tasks[t].outcome) + (IF tasks[t].pc = "idle" THEN 0 ELSE 1)
    /\ \/ i <= Len(tasks'[t].outcome)
       \/ tasks'[t].pc = "request" /\ tasks'[t].idx = i

\* A Model node with neither a non-blank input nor a stored history.
Blank(str) == \A i \in 1 .. Len(str) : str[i] \in {" ", "\n", "\t", "\r"}

EmptyPrompt(node) ==
    /\ node.kind = "Model"
    /\ node.input = None \/ Blank(node.input[1])
    /\ node.messages = <<>>

\* C12: a scheduled Model node that has neither a non-blank aggregated input
\* nor any stored chat history is not sent to the provider; after the scheduler
\* handled it is_executing is false, needs_execution is still true, and the
\* node's history, output and every other field are as before.
C12_EmptyPromptSkipped ==
    [][\A t \in TaskIds : \A i \in 1 .. MaxNodes :
          (/\ Handles(t, i)
           /\ HasNode(tasks'[t].order[i])
           /\ EmptyPrompt(Nodes[tasks'[t].order[i]]))
          => LET id == tasks'[t].order[i]
             IN /\ i <= Len(tasks'[t].outcome)
                /\ tasks'[t].outcome[i] = "prepare_failed"
                /\ workflow_state'.nodes[id] = Nodes[id]
                /\ workflow_state'.nodes[id].is_executing = FALSE
                /\ workflow_state'.nodes[id].needs_execution = TRUE]_vars

\* A finished run that skipped a node whose input is present but blank.
C12_Witness ==
    \E t \in TaskIds : \E i \in 1 .. Len(tasks[t].outcome) :
        /\ tasks[t].pc = "done"
        /\ tasks[t].outcome[i] = "prepare_failed"
        /\ HasNode(tasks[t].order[i])
        /\ Nodes[tasks[t].order[i]].input # None
        /\ EmptyPrompt(Nodes[tasks[t].order[i]])
        /\ ~Nodes[tasks[t].order[i]].is_executing
        /\ Nodes[tasks[t].order[i]].needs_execution

\* Task t applies a chunk, or the end of its stream, in this step, for a node
\* id that is no longer in the graph.
ArrivesForRemoved(t) ==
    /\ tasks[t].pc = "stream"
    /\ ~HasNode(tasks[t].node_id)
    /\ ret'.a = t /\ ret'.op \in {"chunk", "stream_end"}
    /\ tasks'[t] # tasks[t]

\* C13: if a node is removed while its execution is in flight, every chunk and
\* the stream end that arrive afterwards for that node id leave the graph
\* unchanged: no node is re-created, no connection changes and no node's input,
\* output, history or needs_execution changes. (is_executing changes only for
\* the node the scheduler starts next, after the stream end.)
C13_RemovedNodeChunksDropped ==
    [][\A t \in TaskIds : ArrivesForRemoved(t) =>
          /\ DOMAIN workflow_state'.nodes = DOMAIN Nodes
          /\ workflow_state'.connections = Conns
          /\ ret'.op = "chunk" => workflow_state' = workflow_state
          /\ \A m \in DOMAIN Nodes :
                \/ workflow_state'.nodes[m] = Nodes[m]
                \/ /\ ret'.op = "stream_end"
                   /\ tasks'[t].pc = "request" /\ tasks'[t].node_id = m
                   /\ workflow_state'.nodes[m] = [Nodes[m] EXCEPT !.is_executing = TRUE]]_vars

\* The second chunk of a stream was applied for a removed node while a Model
\* node with an input is still in the graph.
C13_Witness ==
    /\ ret.op = "chunk"
    /\ ~HasNode(ret.b)
    /\ \E t \in TaskIds : tasks[t].pc = "stream" /\ tasks[t].node_id = ret.b
                          /\ Len(tasks[t].delivered) = 2
    /\ \E m \in DOMAIN Nodes : Nodes[m].kind = "Model" /\ Nodes[m].input # None

\* -------------------------------------------------- concurrent executions
\* on_send_message: the user sends message_content in the chat of the Model
\* node target_node_id; the execution is spawned as task t.
SendMessage(t, target_node_id, message_content) ==
    /\ tasks[t].pc = "idle"
    /\ target_node_id \in DOMAIN workflow_state.nodes
    /\ workflow_state.nodes[target_node_id].kind = "Model"
    /\ LET pushed == [workflow_state EXCEPT
                         !.nodes[target_node_id].messages =
                             Append(@, ChatMessage("user", message_content, None))]
           started == SetIsExecuting(pushed, target_node_id, TRUE)
           prepared == prepare_prompt(started.nodes[target_node_id])
       IN IF prepared.ok
          THEN /\ workflow_state' = started
               /\ tasks' = [tasks EXCEPT ![t] =
                               [TaskIdle EXCEPT !.pc = "request",
                                                !.order = <<target_node_id>>,
                                                !.idx = 1,
                                                !.node_id = target_node_id,
                                                !.prompt = prepared.messages]]
          ELSE /\ workflow_state' = SetIsExecuting(started, target_node_id, FALSE)
               /\ UNCHANGED <<tasks, canvas_state, producer>>
    /\ ret' = Ret("send_message", t, target_node_id, TRUE, -1, {})
    /\ UNCHANGED <<ord, canvas_state, producer>>

\* What the user types in a chat.
MessageTexts == {<<"q">>}

\* The workflows the concurrent executions start from: a Prompt with a text
\* and two Model nodes, connected forwards in any way.
ForwardPairs == {e \in Pairs : e[1] < e[2]}

ConcurrentClasses ==
    [id \in NodeIds |-> IF id = 0 THEN "Prompt" ELSE "Model"]

InitConcurrent ==
    /\ \E E \in SUBSET ForwardPairs :
          /\ Cardinality(E) <= MaxConns
          /\ workflow_state = BuiltWorkflow(ConcurrentClasses, E)
    /\ tasks = [t \in TaskIds |-> TaskIdle]
    /\ ord = OrdIdle
    /\ ret = RetInit
    /\ canvas_state = CanvasStateInit
    /\ producer = ProducerIdle

\* The streams the provider sends to the concurrent tasks: chunk k of task t
\* carries a content fragment of its own, the second chunk also thinking.
StreamDigits == <<"1", "2", "3", "4", "5", "6", "7", "8", "9">>

StreamChunk(t, k) ==
    [content |-> <<StreamDigits[(((t - 1) * MaxChunks + k - 1) % 9) + 1]>>,
     thinking |-> IF k = 2 THEN Some(<<"t">>) ELSE None]

\* Batch runs and chat messages, each execution in a task of its own; the
\* tasks are polled in any order.
NextConcurrent ==
    \E t \in TaskIds :
        \/ RunWorkflow(t)
        \/ \E id \in NodeIds, text \in MessageTexts : SendMessage(t, id, text)
        \/ RunRequestFailed(t)
        \/ RunRequestOk(t)
        \/ RunRecvChunk(t, StreamChunk(t, Len(tasks[t].delivered) + 1))
        \/ RunRecvNone(t)

SpecConcurrent == InitConcurrent /\ [][NextConcurrent]_vars

\* ------------------------------------------- claims on concurrent executions
InFlight(t) == tasks[t].pc \in {"request", "stream"}

\* C14 (as stated): in every reachable state, if a model call (request or
\* stream) is in flight for an existing node then that node's is_executing is
\* true, also when a chat message and a batch run, or two batch runs, execute
\* the same node at the same time.
C14_Original ==
    \A t \in TaskIds :
        (InFlight(t) /\ HasNode(tasks[t].node_id))
            => Nodes[tasks[t].node_id].is_executing

\* Two calls are in flight for the same node.
C14_Witness ==
    \E t, u \in TaskIds :
        /\ t # u
        /\ InFlight(t) /\ InFlight(u)
        /\ tasks[t].node_id = tasks[u].node_id
        /\ Nodes[tasks[t].node_id].is_executing

\* ------------------------------------------------ claims on needs_execution
\* Node id is started in this step: its is_executing becomes true.
Starts(id) ==
    /\ HasNode(id) /\ id \in DOMAIN workflow_state'.nodes
    /\ ~Nodes[id].is_executing
    /\ workflow_state'.nodes[id].is_executing

\* Task t's stream ends in this step without a failure of the provider, and
\* the node exists.
StreamCloses(t) ==
    /\ Streaming(t)
    /\ ret'.op = "stream_end" /\ ret'.a = t /\ ret'.ok
    /\ Len(tasks'[t].outcome) > Len(tasks[t].outcome)

\* C15 (as stated): starting a node's execution does not clear
\* needs_execution, and once the node's stream has ended successfully, with any
\* number of chunks including none, needs_execution is false. (In a run of one
\* node at a time nothing changes the input of the streaming node.)
C15_Original ==
    [][/\ \A id \in NodeIds :
             Starts(id) => workflow_state'.nodes[id].needs_execution
                               = Nodes[id].needs_execution
       /\ \A t \in TaskIds :
             StreamCloses(t) =>
                 workflow_state'.nodes[tasks[t].node_id].needs_execution = FALSE]_vars

\* C15, what the code does: the start leaves needs_execution as it is, the
\* first chunk clears it, and the end of the stream leaves it as it is: after a
\* stream without chunks it is still true.
C15_ClearedByFirstChunk ==
    [][/\ \A id \in NodeIds :
             Starts(id) => workflow_state'.nodes[id].needs_execution
                               = Nodes[id].needs_execution
       /\ \A t \in TaskIds :
             StreamCloses(t) =>
                 /\ workflow_state'.nodes[tasks[t].node_id].needs_execution
                        = Nodes[tasks[t].node_id].needs_execution
                 /\ Nodes[tasks[t].node_id].needs_execution
                        = (Len(tasks[t].delivered) = 0)]_vars

\* A stream that ended successfully without a chunk: the node still needs
\* execution.
C15_Witness ==
    /\ ret.op = "stream_end" /\ ret.ok /\ ret.val = 0
    /\ HasNode(ret.b)
    /\ Nodes[ret.b].needs_execution
    /\ ~Nodes[ret.b].is_executing

\* --------------------------------------------------- claims on sequencing
\* The nodes of task t's order that are marked as executing.
Executing(t) ==
    {id \in Range(tasks[t].order) : HasNode(id) /\ Nodes[id].is_executing}

\* Task t issues the request for a further node of its order in this step.
IssuesNext(t) ==
    /\ tasks[t].pc # "idle"
    /\ tasks'[t].pc = "request"
    /\ tasks'[t].idx > tasks[t].idx

\* C16: within one scheduled run the request for the next node of the order is
\* issued only in the step in which the previous node's stream closes or its
\* request fails, so at most one node of the run has a call in flight at any
\* time: it is the only node of the order marked as executing.
C16_OneNodeInFlight ==
    /\ [](\A t \in TaskIds :
             /\ Cardinality(Executing(t)) <= 1
             /\ InFlight(t) => Executing(t) \subseteq {tasks[t].node_id}
             /\ ~InFlight(t) => Executing(t) = {})
    /\ [][\A t \in TaskIds : IssuesNext(t) =>
              /\ InFlight(t)
              /\ ret'.op \in {"stream_end", "request_failed"}
              /\ ret'.a = t /\ ret'.b = tasks[t].node_id
              /\ tasks'[t].node_id # tasks[t].node_id
              /\ tasks[t].node_id \in DOMAIN workflow_state'.nodes
                    => ~workflow_state'.nodes[tasks[t].node_id].is_executing]_vars

\* The request for the second node of the order is in flight after the first
\* node's stream was drained.
C16_Witness ==
    \E t \in TaskIds :
        /\ tasks[t].pc = "request" /\ tasks[t].idx = 2
        /\ tasks[t].outcome = <<"streamed">>
        /\ ret.op = "stream_end" /\ ret.val = MaxChunks
        /\ HasNode(tasks[t].order[1]) /\ HasNode(tasks[t].order[2])
        /\ Executing(t) = {tasks[t].order[2]}

\* ------------------------------------- concurrent executions of two nodes
\* Model 1 needs execution and Model 2 was executed before; they and Prompt 0
\* are connected in any way.
DisjointClasses ==
    [id \in NodeIds |-> IF id = 0 THEN "Prompt" ELSE IF id = 1 THEN "Model" ELSE "ModelDone"]

InitDisjoint ==
    /\ \E E \in EdgeSets :
          /\ Buildable(DisjointClasses, E)
          /\ workflow_state = BuiltWorkflow(DisjointClasses, E)
    /\ tasks = [t \in TaskIds |-> TaskIdle]
    /\ ord = OrdIdle
    /\ ret = RetInit
    /\ canvas_state = CanvasStateInit
    /\ producer = ProducerIdle

\* Task 1 is a batch run, or a chat message to node 1; task 2 is a chat
\* message to node 2. Their chunks are applied in any interleaving.
NextDisjoint ==
    \/ RunWorkflow(1)
    \/ \E text \in MessageTexts : SendMessage(1, 1, text)
    \/ \E text \in MessageTexts : SendMessage(2, 2, text)
    \/ \E t \in TaskIds :
          \/ RunRequestFailed(t)
          \/ RunRequestOk(t)
          \/ RunRecvChunk(t, StreamChunk(t, Len(tasks[t].delivered) + 1))
          \/ RunRecvNone(t)

SpecDisjoint == InitDisjoint /\ [][NextDisjoint]_vars

\* Task t's stream ends in this step.
StreamEnds_(t) ==
    /\ Streaming(t)
    /\ ret'.op = "stream_end" /\ ret'.a = t
    /\ Len(tasks'[t].outcome) > Len(tasks[t].outcome)

\* Task t applies a chunk in this step.
AppliesChunk(t) ==
    /\ Streaming(t)
    /\ ret'.op = "chunk" /\ ret'.a = t
    /\ Len(tasks'[t].delivered) = Len(tasks[t].delivered) + 1

\* The assistant turn of task t's node holds the content of t's own stream.
OwnContent(node, t) ==
    /\ Len(node.messages) >= 1
    /\ Last(node.messages).role = "assistant"
    /\ Last(node.messages).content = ContentOf(tasks[t].delivered)

DirectTargets(n) ==
    {Conns[c].to_node_id : c \in {k \in DOMAIN Conns : Conns[k].from_node_id = n}}

\* The input of node t is the aggregation of the outputs of its sources: None
\* without a contributing source, else their outputs in ascending order of
\* position with a blank line between.
IsAggregation(t) ==
    IF Contributing(t) = {} THEN Nodes[t].input = None
    ELSE \E order \in Perms(Contributing(t)) :
            /\ Ascending(SourcesAlong(order))
            /\ Nodes[t].input = Some(BlankLineJoined(SourcesAlong(order)))

\* C18: publishing a new output for node n changes, besides n's own output
\* and needs_execution, only the input and needs_execution of the direct
\* targets of n: each gets a recomputed input and needs_execution = true, and
\* every other node, the nodes two or more hops downstream included, is
\* unchanged.
C18_OneHopPropagation ==
    [][ret'.op = "update_node_output" =>
          LET n == ret'.a
          IN /\ DOMAIN workflow_state'.nodes = DOMAIN Nodes
             /\ workflow_state'.connections = Conns
             /\ \A m \in DOMAIN Nodes \ ({n} \cup DirectTargets(n)) :
                   workflow_state'.nodes[m] = Nodes[m]
             /\ \A m \in (DOMAIN Nodes \cap DirectTargets(n)) \ {n} :
                   /\ workflow_state'.nodes[m] =
                         [Nodes[m] EXCEPT !.input = workflow_state'.nodes[m].input,
                                          !.needs_execution = TRUE]
                   /\ IsAggregation(m)'
             /\ workflow_state'.nodes[n] =
                   [Nodes[n] EXCEPT !.output = workflow_state'.nodes[n].output,
                                    !.needs_execution = FALSE]
             /\ workflow_state'.nodes[n].output # None]_vars

\* An output was published for n, with a chain n -> m -> k: m has the new
\* input and needs execution, k is no direct target of n and does not need
\* execution.
C18_Witness ==
    /\ ret.op = "update_node_output"
    /\ \E m \in ret.touched, k \in DOMAIN Nodes :
          /\ HasNode(m) /\ k \notin ret.touched \cup {ret.a}
          /\ k \in DirectTargets(m)
          /\ Nodes[m].needs_execution /\ Nodes[m].input # None
          /\ ~Nodes[k].needs_execution

\* ------------------------------------------------- redirecting a connection
\* find over connections.iter(): the first connection into target_node_id in
\* iteration order, None when there is none.
RECURSIVE FindByTarget(_, _, _)
FindByTarget(wf, target_node_id, iter) ==
    IF Len(iter) = 0 THEN None
    ELSE IF wf.connections[iter[1]].to_node_id = target_node_id THEN Some(iter[1])
    ELSE FindByTarget(wf, target_node_id, Tail(iter))

\* Mutant: every connection into the node is removed.
remove_connection_by_target_node_All(wf, target_node_id, iter) ==
    LET kept == {c \in DOMAIN wf.connections :
                    wf.connections[c].to_node_id # target_node_id}
        removed == [wf EXCEPT !.connections = Restrict(wf.connections, kept)]
    IN IF kept = DOMAIN wf.connections THEN wf
       ELSE IF target_node_id \in DOMAIN removed.nodes
       THEN [removed EXCEPT !.nodes[target_node_id].input = None]
       ELSE removed

remove_connection_by_target_node(wf, target_node_id, iter) ==
    LET conn_id_to_remove == FindByTarget(wf, target_node_id, iter)
    IN IF IsSome(conn_id_to_remove)
       THEN LET removed == [wf EXCEPT !.connections =
                               Restrict(wf.connections,
                                        (DOMAIN wf.connections) \ {Unwrap(conn_id_to_remove)})]
            IN IF target_node_id \in DOMAIN removed.nodes
               THEN [removed EXCEPT !.nodes[target_node_id].input = None]
               ELSE removed
       ELSE wf

redirect_connection(wf, target_node_id, iter) ==
    LET found == FindByTarget(wf, target_node_id, iter)
    IN IF ~IsSome(found) THEN wf
       ELSE LET source_node_id == wf.connections[Unwrap(found)].from_node_id
                current_mouse_pos ==
                    IF wf.drawing_connection_state.active
                    THEN wf.drawing_connection_state.current_mouse_world_pos
                    ELSE IF target_node_id \in DOMAIN wf.nodes
                    THEN get_port_world_pos(wf.nodes[target_node_id], "input")
                    ELSE <<0, 0>>
            IN IF source_node_id \notin DOMAIN wf.nodes THEN wf
               ELSE remove_connection_by_target_node(
                        [wf EXCEPT !.drawing_connection_state =
                            [active |-> TRUE,
                             source_node_id |-> source_node_id,
                             source_port_world_pos |->
                                 get_port_world_pos(wf.nodes[source_node_id], "output"),
                             current_mouse_world_pos |-> current_mouse_pos,
                             target_node_id |-> None]],
                        target_node_id, iter)

\* Mutant: the hovered target is taken whatever the source is.
set_connection_target_NoSourceCheck(wf, target_id) ==
    [wf EXCEPT !.drawing_connection_state.target_node_id = Some(target_id)]

set_connection_target(wf, target_id) ==
    IF wf.drawing_connection_state.source_node_id # target_id
    THEN [wf EXCEPT !.drawing_connection_state.target_node_id = Some(target_id)]
    ELSE wf

\* Mutant: the machine is left as it is when no target is hovered.
complete_drawing_connection_NoCancel(wf, iter) ==
    IF wf.drawing_connection_state.target_node_id = None
    THEN [wf |-> wf, ok |-> FALSE, val |-> -1]
    ELSE IF wf.drawing_connection_state.source_node_id \in DOMAIN wf.nodes
    THEN LET r == add_connection(wf, wf.drawing_connection_state.source_node_id,
                                 Unwrap(wf.drawing_connection_state.target_node_id), iter)
         IN [wf |-> cancel_drawing_connection(r.wf), ok |-> r.ok, val |-> r.val]
    ELSE [wf |-> cancel_drawing_connection(wf), ok |-> FALSE, val |-> -1]

\* complete_drawing_connection: the store after it and whether a connection
\* was added.
complete_drawing_connection(wf, iter) ==
    IF wf.drawing_connection_state.target_node_id = None
    THEN [wf |-> cancel_drawing_connection(wf), ok |-> FALSE, val |-> -1]
    ELSE IF wf.drawing_connection_state.source_node_id \in DOMAIN wf.nodes
    THEN LET r == add_connection(wf, wf.drawing_connection_state.source_node_id,
                                 Unwrap(wf.drawing_connection_state.target_node_id), iter)
         IN [wf |-> cancel_drawing_connection(r.wf), ok |-> r.ok, val |-> r.val]
    ELSE [wf |-> cancel_drawing_connection(wf), ok |-> FALSE, val |-> -1]

\* on_connection_redirect: the user grabs the connection at the input port of
\* node id.
RedirectConnection(id) ==
    /\ id \in DOMAIN workflow_state.nodes
    /\ \E wf \in {redirect_connection(workflow_state, id, iter) :
                    iter \in Perms(DOMAIN workflow_state.connections)} :
          /\ workflow_state' = wf
          /\ ret' = Ret("redirect_connection", id, -1,
                        wf.drawing_connection_state.active, -1,
                        IF wf.drawing_connection_state.active THEN {id} ELSE {})
    /\ UNCHANGED <<tasks, ord, canvas_state, producer>>

\* The mouse is released over the input port of node id while a connection is
\* drawn: set_connection_target on entering the port, then
\* complete_drawing_connection.
CompleteDrawing(id) ==
    /\ workflow_state.drawing_connection_state.active
    /\ id \in DOMAIN workflow_state.nodes
    /\ workflow_state.next_connection_id < MaxConns
    /\ \E r \in {complete_drawing_connection(set_connection_target(workflow_state, id), iter) :
                  iter \in Perms((DOMAIN workflow_state.connections)
                                    \cup {workflow_state.next_connection_id})} :
          /\ workflow_state' = r.wf
          /\ ret' = Ret("complete_drawing_connection",
                        workflow_state.drawing_connection_state.source_node_id, id,
                        r.ok, r.val, IF r.ok THEN {id} ELSE {})
    /\ UNCHANGED <<tasks, ord, canvas_state, producer>>

\* The mouse is released over the canvas while a connection is drawn.
CancelDrawing ==
    /\ workflow_state.drawing_connection_state.active
    /\ workflow_state.drawing_connection_state.target_node_id = None
    /\ workflow_state' = cancel_drawing_connection(workflow_state)
    /\ ret' = Ret("cancel_drawing_connection",
                  workflow_state.drawing_connection_state.source_node_id, -1,
                  TRUE, -1, {})
    /\ UNCHANGED <<tasks, ord, canvas_state, producer>>

\* The graph is edited as in SpecGraph; a connection can also be grabbed at its
\* target and dropped on a node or on the canvas. While the mouse draws a
\* connection nothing else is done.
NextRedirect ==
    \/ ~workflow_state.drawing_connection_state.active /\ NextGraph
    \/ /\ ~workflow_state.drawing_connection_state.active
       /\ \E id \in NodeIds : RedirectConnection(id)
    \/ \E id \in NodeIds : CompleteDrawing(id)
    \/ CancelDrawing

SpecRedirect == InitGraph /\ [][NextRedirect]_vars

\* ------------------------------------------- claims on removed connections
\* The nodes that lose an incoming connection in this step and stay.
LosesConnection(m) ==
    /\ m \in DOMAIN workflow_state'.nodes
    /\ \E c \in (DOMAIN Conns) \ DOMAIN workflow_state'.connections :
          Conns[c].to_node_id = m

\* C19 (as stated): whenever a connection is removed, by the cascade of
\* remove_node or by a redirect, the input of the node that lost the incoming
\* connection is the aggregation of the outputs of its remaining sources, None
\* if none remain.
C19_Original ==
    [][\A m \in NodeIds : LosesConnection(m) => IsAggregation(m)']_vars

\* C19, what the code does: remove_node leaves the input of the nodes that
\* lose a connection as it was, and a redirect sets the input of its target to
\* None whatever sources remain.
C19_InputNotRecomputed ==
    [][\A m \in NodeIds : LosesConnection(m) =>
          /\ ret'.op \in {"remove_node", "redirect_connection"}
          /\ ret'.op = "remove_node" =>
                workflow_state'.nodes[m].input = Nodes[m].input
          /\ ret'.op = "redirect_connection" =>
                workflow_state'.nodes[m].input = None]_vars

\* A redirect took one of two connections into a node: the source of the other
\* is still connected and has an output, and the node's input is None.
C19_Witness ==
    /\ ret.op = "redirect_connection" /\ ret.ok
    /\ HasNode(ret.a)
    /\ Contributing(ret.a) # {}
    /\ Nodes[ret.a].input = None

\* -------------------------------------------------- claims on add_connection
\* C20: add_connection(from, to) with from # to always succeeds, also when a
\* connection between the same ordered pair exists: it adds exactly one
\* connection under an id that was not in use, sets needs_execution of to, and
\* recomputes the input of to over all connections into it, a source connected
\* twice contributing twice; nothing else changes.
C20_AddConnectionNoDedup ==
    [][\A from \in NodeIds, to \in NodeIds :
          (ret'.op = "add_connection" /\ ret'.a = from /\ ret'.b = to /\ from # to) =>
              /\ ret'.ok
              /\ ret'.val \notin DOMAIN Conns
              /\ DOMAIN workflow_state'.connections = (DOMAIN Conns) \cup {ret'.val}
              /\ \A c \in DOMAIN Conns : workflow_state'.connections[c] = Conns[c]
              /\ workflow_state'.connections[ret'.val] = Connection(from, to)
              /\ DOMAIN workflow_state'.nodes = DOMAIN Nodes
              /\ \A m \in DOMAIN Nodes \ {to} : workflow_state'.nodes[m] = Nodes[m]
              /\ to \in DOMAIN Nodes =>
                    /\ workflow_state'.nodes[to] =
                          [Nodes[to] EXCEPT !.input = workflow_state'.nodes[to].input,
                                            !.needs_execution = TRUE]
                    /\ IsAggregation(to)'
                    /\ \A c \in DOMAIN Conns :
                          (Conns[c] = Connection(from, to)
                              /\ from \in DOMAIN Nodes
                              /\ Nodes[from].output # None
                              /\ Cardinality(Contributing(to)') = 2)
                          => workflow_state'.nodes[to].input =
                                Some(Nodes[from].output[1] \o <<"\n", "\n">>
                                         \o Nodes[from].output[1])]_vars

\* A second connection was added between the same ordered pair: the target's
\* input holds the source's output twice.
C20_Witness ==
    /\ ret.op = "add_connection" /\ ret.ok
    /\ \E c \in DOMAIN Conns :
          /\ c # ret.val
          /\ Conns[c] = Conns[ret.val]
    /\ HasNode(ret.a) /\ HasNode(ret.b)
    /\ Nodes[ret.a].output \notin {None, Some(EmptyString)}
    /\ Nodes[ret.b].needs_execution
    /\ Nodes[ret.b].input =
          Some(Nodes[ret.a].output[1] \o <<"\n", "\n">> \o Nodes[ret.a].output[1])

\* ------------------------------------------------------ the drawing machine
\* The pointer positions the canvas hands over, in world coordinates.
MousePositions == {<<0, 0>>, <<300, 150>>}

start_drawing_connection(wf, source_node_id, source_port_world_pos) ==
    IF source_node_id \in DOMAIN wf.nodes
    THEN [wf EXCEPT !.drawing_connection_state =
             [active |-> TRUE,
              source_node_id |-> source_node_id,
              source_port_world_pos |-> source_port_world_pos,
              current_mouse_world_pos |-> source_port_world_pos,
              target_node_id |-> None]]
    ELSE wf

update_drawing_connection(wf, mouse_world_pos) ==
    [wf EXCEPT !.drawing_connection_state.current_mouse_world_pos = mouse_world_pos]

clear_connection_target(wf) ==
    [wf EXCEPT !.drawing_connection_state.target_node_id = None]

\* The drag offset keeps the node under the pointer; the model hands drag_node
\* the position that results.
start_dragging_node(wf, node_id) ==
    IF node_id \in DOMAIN wf.nodes
    THEN [wf EXCEPT !.dragging_node_id = Some(node_id)]
    ELSE wf

drag_node(wf, position_x, position_y) ==
    IF /\ IsSome(wf.dragging_node_id)
       /\ Unwrap(wf.dragging_node_id) \in DOMAIN wf.nodes
    THEN [wf EXCEPT !.nodes[Unwrap(wf.dragging_node_id)].position_x = position_x,
                    !.nodes[Unwrap(wf.dragging_node_id)].position_y = position_y]
    ELSE wf

\* Mutant: the release of the node recomputes nothing.
end_dragging_node_NoPropagate(wf, iter) ==
    IF IsSome(wf.dragging_node_id)
    THEN [wf EXCEPT !.dragging_node_id = None]
    ELSE wf

end_dragging_node(wf, iter) ==
    IF IsSome(wf.dragging_node_id)
    THEN propagate_output_to_connected_nodes(
             [wf EXCEPT !.dragging_node_id = None],
             Unwrap(wf.dragging_node_id), iter)
    ELSE wf

\* NodeComponent on_mouse_down: the node is selected and its drag starts.
NodeMouseDown(id) ==
    /\ id \in DOMAIN workflow_state.nodes
    /\ workflow_state' =
          start_dragging_node([workflow_state EXCEPT !.selected_node_id = Some(id)], id)
    /\ ret' = Ret("start_dragging_node", id, -1, TRUE, -1, {})
    /\ UNCHANGED <<tasks, ord, canvas_state, producer>>

\* on_mouse_move while a node is dragged and no connection is drawn.
DragNode(x, y) ==
    /\ ~workflow_state.drawing_connection_state.active
    /\ IsSome(workflow_state.dragging_node_id)
    /\ workflow_state' = drag_node(workflow_state, x, y)
    /\ ret' = Ret("drag_node", Unwrap(workflow_state.dragging_node_id), -1, TRUE, -1, {})
    /\ UNCHANGED <<tasks, ord, canvas_state, producer>>

\* on_start_connection: the mouse is pressed on the output socket of node id.
StartDrawing(id) ==
    /\ id \in DOMAIN workflow_state.nodes
    /\ workflow_state' =
          start_drawing_connection(workflow_state, id,
              get_port_world_pos(workflow_state.nodes[id], "output"))
    /\ ret' = Ret("start_drawing_connection", id, -1, TRUE, -1, {})
    /\ UNCHANGED <<tasks, ord, canvas_state, producer>>

\* on_mouse_move while a connection is drawn.
UpdateDrawing(mouse_world_pos) ==
    /\ workflow_state.drawing_connection_state.active
    /\ workflow_state' = update_drawing_connection(workflow_state, mouse_world_pos)
    /\ ret' = Ret("update_drawing_connection",
                  workflow_state.drawing_connection_state.source_node_id, -1,
                  TRUE, -1, {})
    /\ UNCHANGED <<tasks, ord, canvas_state, producer>>

\* onmouseenter of node id.
MouseEnter(id) ==
    /\ id \in DOMAIN workflow_state.nodes
    /\ workflow_state.drawing_connection_state.active
    /\ workflow_state' = set_connection_target(workflow_state, id)
    /\ ret' = Ret("set_connection_target",
                  workflow_state.drawing_connection_state.source_node_id, id,
                  workflow_state.drawing_connection_state.source_node_id # id, -1, {})
    /\ UNCHANGED <<tasks, ord, canvas_state, producer>>

\* onmouseleave of node id.
MouseLeave(id) ==
    /\ id \in DOMAIN workflow_state.nodes
    /\ workflow_state.drawing_connection_state.target_node_id = Some(id)
    /\ workflow_state' = clear_connection_target(workflow_state)
    /\ ret' = Ret("clear_connection_target",
                  workflow_state.drawing_connection_state.source_node_id, id,
                  TRUE, -1, {})
    /\ UNCHANGED <<tasks, ord, canvas_state, producer>>

\* complete_drawing_connection called in the current state, with or without a
\* hovered target: ret.a is the source, ret.b the hovered target (-1 without).
CompleteDrawingConnection ==
    LET state == workflow_state.drawing_connection_state
    IN /\ state.target_node_id = None \/ workflow_state.next_connection_id < MaxConns
       /\ \E r \in {complete_drawing_connection(workflow_state, iter) :
                     iter \in Perms((DOMAIN workflow_state.connections)
                                       \cup {workflow_state.next_connection_id})} :
             /\ workflow_state' = r.wf
             /\ ret' = Ret("complete_drawing_connection", state.source_node_id,
                           IF IsSome(state.target_node_id)
                           THEN Unwrap(state.target_node_id) ELSE -1,
                           r.ok, r.val,
                           IF r.ok THEN {Unwrap(state.target_node_id)} ELSE {})
       /\ UNCHANGED <<tasks, ord, canvas_state, producer>>

\* on_mouse_up: a drawn connection is cancelled over the canvas and completed
\* over a hovered node, then the drag of a node ends.
MouseUp ==
    LET state == workflow_state.drawing_connection_state
        drawing == state.active
        hovering == drawing /\ IsSome(state.target_node_id)
    IN /\ drawing \/ IsSome(workflow_state.dragging_node_id)
       /\ ~hovering \/ workflow_state.next_connection_id < MaxConns
       /\ \E iter \in Perms((DOMAIN workflow_state.connections)
                               \cup {workflow_state.next_connection_id}) :
             LET r == IF hovering THEN complete_drawing_connection(workflow_state, iter)
                      ELSE IF drawing
                      THEN [wf |-> cancel_drawing_connection(workflow_state),
                            ok |-> TRUE, val |-> -1]
                      ELSE [wf |-> workflow_state, ok |-> TRUE, val |-> -1]
             IN \E wf \in {end_dragging_node(r.wf, it) :
                             it \in Perms(DOMAIN r.wf.connections)} :
                   /\ workflow_state' = wf
                   /\ ret' = Ret(IF hovering THEN "complete_drawing_connection"
                                 ELSE IF drawing THEN "cancel_drawing_connection"
                                 ELSE "end_dragging_node",
                                 IF drawing THEN state.source_node_id
                                 ELSE Unwrap(workflow_state.dragging_node_id),
                                 IF hovering THEN Unwrap(state.target_node_id) ELSE -1,
                                 r.ok, r.val,
                                 IF hovering /\ r.ok
                                 THEN {Unwrap(state.target_node_id)} ELSE {})
       /\ canvas_state' = [canvas_state EXCEPT !.dragging = FALSE]
       /\ UNCHANGED <<tasks, ord, producer>>

\* Nodes are added and removed, and connections drawn, hovered, dropped and
\* redirected, in any order the handlers allow.
NextDrawing ==
    \/ \E kind \in Kinds : AddNode(kind, 50, 0)
    \/ \E id \in NodeIds : RemoveNode(id)
    \/ \E id \in NodeIds : StartDrawing(id)
    \/ \E id \in NodeIds : RedirectConnection(id)
    \/ \E mouse_world_pos \in MousePositions : UpdateDrawing(mouse_world_pos)
    \/ \E id \in NodeIds : MouseEnter(id)
    \/ \E id \in NodeIds : MouseLeave(id)
    \/ CompleteDrawingConnection
    \/ MouseUp

SpecDrawing == InitGraph /\ [][NextDrawing]_vars

\* Nodes are added, removed, selected and dragged while connections are
\* grabbed at either end and released over the canvas.
NextSelection ==
    \/ \E kind \in Kinds : AddNode(kind, 50, 0)
    \/ \E id \in NodeIds : RemoveNode(id)
    \/ \E id \in NodeIds : NodeMouseDown(id)
    \/ \E x \in PositionsX : DragNode(x, 0)
    \/ \E id \in NodeIds : StartDrawing(id)
    \/ \E id \in NodeIds : RedirectConnection(id)
    \/ MouseUp

SpecSelection == InitGraph /\ [][NextSelection]_vars

\* ------------------------------------------ claims on the drawing machine
Drawing == workflow_state.drawing_connection_state

\* C21: complete_drawing_connection with no hovered target returns an error,
\* leaves the nodes, the connections and both id counters as they were, and
\* leaves the drawing state at its default.
C21_CompleteWithoutTarget ==
    [][(ret'.op = "complete_drawing_connection" /\ Drawing.target_node_id = None) =>
          /\ ~ret'.ok
          /\ workflow_state'.nodes = Nodes
          /\ workflow_state'.connections = Conns
          /\ workflow_state'.next_node_id = workflow_state.next_node_id
          /\ workflow_state'.next_connection_id = workflow_state.next_connection_id
          /\ workflow_state'.drawing_connection_state = ConnectionDrawingStateDefault]_vars

\* A connection drawn from node 1 was completed with no node hovered: an error
\* came back and the machine is idle.
C21_Witness ==
    /\ ret.op = "complete_drawing_connection"
    /\ ret.a = 1 /\ ret.b = -1
    /\ ~ret.ok
    /\ Drawing = ConnectionDrawingStateDefault

\* C22: complete_drawing_connection while a connection is drawn from s with
\* the hovered target t adds exactly one connection s -> t, under a new id
\* that it returns, and keeps every other connection; after any call of it the
\* drawing state is the default, whether a connection was added or not.
C22_CompleteAddsOneConnection ==
    [][ret'.op = "complete_drawing_connection" =>
          /\ workflow_state'.drawing_connection_state = ConnectionDrawingStateDefault
          /\ (Drawing.active /\ IsSome(Drawing.target_node_id)) =>
                /\ ret'.ok
                /\ ret'.val \notin DOMAIN Conns
                /\ DOMAIN workflow_state'.connections = (DOMAIN Conns) \cup {ret'.val}
                /\ workflow_state'.connections[ret'.val] =
                      Connection(Drawing.source_node_id, Unwrap(Drawing.target_node_id))
                /\ \A c \in DOMAIN Conns : workflow_state'.connections[c] = Conns[c]]_vars

\* A connection drawn from ret.a was dropped on ret.b: it is in the graph under
\* the returned id and the machine is idle.
C22_Witness ==
    /\ ret.op = "complete_drawing_connection"
    /\ ret.ok
    /\ ret.val \in DOMAIN Conns
    /\ Conns[ret.val] = Connection(ret.a, ret.b)
    /\ Drawing = ConnectionDrawingStateDefault

\* C23: while a connection is drawn the hovered target is never the source;
\* a completion with a hovered target therefore never fails and never joins a
\* node to itself, and no connection of the graph does.
C23_TargetIsNotSource ==
    /\ Drawing.active => Drawing.target_node_id # Some(Drawing.source_node_id)
    /\ (ret.op = "complete_drawing_connection" /\ ret.b # -1) =>
          ret.ok /\ ret.a # ret.b
    /\ \A c \in DOMAIN Conns : Conns[c].from_node_id # Conns[c].to_node_id

\* The pointer entered the source node while another node was hovered: the
\* hovered target stays.
C23_Witness ==
    /\ ret.op = "set_connection_target"
    /\ ret.a = ret.b
    /\ Drawing.active
    /\ IsSome(Drawing.target_node_id)
    /\ Drawing.target_node_id # Some(Drawing.source_node_id)

\* C24: redirect_connection on a node with an incoming connection removes
\* exactly one connection into that node, sets the node's input to None, keeps
\* every other connection and every other node, and starts a draw with no
\* hovered target from the source of the removed connection; on a node with no
\* incoming connection it changes nothing.
C24_RedirectDetachesOne ==
    [][\A id \in NodeIds :
          (ret'.op = "redirect_connection" /\ ret'.a = id) =>
              IF \E c \in DOMAIN Conns : Conns[c].to_node_id = id
              THEN \E c \in DOMAIN Conns :
                      /\ Conns[c].to_node_id = id
                      /\ DOMAIN workflow_state'.connections = (DOMAIN Conns) \ {c}
                      /\ \A k \in (DOMAIN Conns) \ {c} :
                            workflow_state'.connections[k] = Conns[k]
                      /\ workflow_state'.nodes =
                            [Nodes EXCEPT ![id].input = None]
                      /\ workflow_state'.drawing_connection_state.active
                      /\ workflow_state'.drawing_connection_state.target_node_id = None
                      /\ workflow_state'.drawing_connection_state.source_node_id =
                            Conns[c].from_node_id
              ELSE workflow_state' = workflow_state]_vars

\* One of two connections into a node was grabbed: the other is still there,
\* its source has an output, the node's input is None and a draw is on.
C24_Witness ==
    /\ ret.op = "redirect_connection" /\ ret.ok
    /\ \E c \in DOMAIN Conns :
          /\ Conns[c].to_node_id = ret.a
          /\ Conns[c].from_node_id # Drawing.source_node_id
    /\ HasNode(ret.a) /\ Nodes[ret.a].input = None
    /\ Drawing.active /\ Drawing.target_node_id = None

\* C25: the selected node, the dragged node and the source of a connection
\* being drawn are nodes of the graph; remove_node(id) clears the selection
\* and the drag when they refer to id, resets the drawing state when a
\* connection is drawn from id, and leaves them alone otherwise.
C25_TransientIdsExist ==
    /\ [](/\ IsSome(workflow_state.selected_node_id) =>
                HasNode(Unwrap(workflow_state.selected_node_id))
          /\ IsSome(workflow_state.dragging_node_id) =>
                HasNode(Unwrap(workflow_state.dragging_node_id))
          /\ Drawing.active => HasNode(Drawing.source_node_id))
    /\ [][\A id \in NodeIds :
            (ret'.op = "remove_node" /\ ret'.a = id) =>
                /\ workflow_state'.selected_node_id =
                      IF workflow_state.selected_node_id = Some(id) THEN None
                      ELSE workflow_state.selected_node_id
                /\ workflow_state'.dragging_node_id =
                      IF workflow_state.dragging_node_id = Some(id) THEN None
                      ELSE workflow_state.dragging_node_id
                /\ workflow_state'.drawing_connection_state =
                      IF Drawing.active /\ Drawing.source_node_id = id
                      THEN ConnectionDrawingStateDefault
                      ELSE Drawing]_vars

\* The node removed was selected, dragged and the source of a connection being
\* drawn: all three are cleared.
C25_Witness ==
    /\ ret.op = "remove_node"
    /\ ret.b = 7
    /\ workflow_state.selected_node_id = None
    /\ workflow_state.dragging_node_id = None
    /\ Drawing = ConnectionDrawingStateDefault

\* ------------------------------------------------------ input order numbers
\* The filter / filter_map of get_input_order_number over the connections in
\* iteration order iter.
RECURSIVE SourceNodes(_, _, _)
SourceNodes(wf, target_node_id, iter) ==
    IF Len(iter) = 0 THEN <<>>
    ELSE LET conn == wf.connections[iter[1]]
             rest == SourceNodes(wf, target_node_id, Tail(iter))
         IN IF /\ conn.to_node_id = target_node_id
               /\ conn.from_node_id \in DOMAIN wf.nodes
            THEN <<[id |-> conn.from_node_id,
                    y |-> wf.nodes[conn.from_node_id].position_y,
                    x |-> wf.nodes[conn.from_node_id].position_x]>> \o rest
            ELSE rest

\* iter().position(..): the first index that holds node_id, None without one.
Position(source_nodes, node_id) ==
    LET found == {i \in 1 .. Len(source_nodes) : source_nodes[i].id = node_id}
    IN IF found = {} THEN None
       ELSE Some((CHOOSE i \in found : \A j \in found : i <= j) - 1)

get_input_order_number(wf, node_id, target_node_id, iter) ==
    LET source_nodes == SourceNodes(wf, target_node_id, iter)
        pos == Position(SortByPosition(source_nodes), node_id)
    IN IF Len(source_nodes) <= 1 THEN None
       ELSE IF IsSome(pos) THEN Some(Unwrap(pos) + 1)
       ELSE None

\* NodeComponent computes the badge of node_id for target_node_id; the function
\* is called here for every pair of ids.
GetInputOrderNumber(node_id, target_node_id) ==
    /\ \E r \in {get_input_order_number(workflow_state, node_id, target_node_id, iter) :
                  iter \in Perms(DOMAIN workflow_state.connections)} :
          ret' = Ret("get_input_order_number", node_id, target_node_id,
                     IsSome(r), IF IsSome(r) THEN Unwrap(r) ELSE -1, {})
    /\ UNCHANGED <<workflow_state, tasks, ord, canvas_state, producer>>

\* Workflows of three nodes at three heights: Prompt 0 with an output, node 1 a
\* Prompt with an output or a Model without one, Model 2; up to MaxConns
\* connections 0 -> 2 and 1 -> 2, a pair possibly connected twice.
BadgePairs == {<<0, 2>>, <<1, 2>>}
BadgeConnectionLists == UNION {[1 .. n -> BadgePairs] : n \in 0 .. MaxConns}
BadgeClasses == {classes \in [NodeIds -> {"Prompt", "Model"}] :
                    classes[0] = "Prompt" /\ classes[MaxNodes - 1] = "Model"}

BadgeWorkflow(classes, conns, iter) ==
    LET wf == [nodes |-> [id \in NodeIds |-> BuiltNode(classes[id], id)],
               connections |-> [i \in 0 .. (Len(conns) - 1) |->
                                   Connection(conns[i + 1][1], conns[i + 1][2])],
               next_node_id |-> MaxNodes,
               next_connection_id |-> Len(conns),
               selected_node_id |-> None,
               dragging_node_id |-> None,
               drawing_connection_state |-> ConnectionDrawingStateDefault]
    IN RecomputeInputs(wf, AnOrder(NodeIds), iter)

InitBadge ==
    /\ \E classes \in BadgeClasses, conns \in BadgeConnectionLists :
          \E iter \in Perms(0 .. (Len(conns) - 1)) :
             workflow_state = BadgeWorkflow(classes, conns, iter)
    /\ tasks = [t \in TaskIds |-> TaskIdle]
    /\ ord = OrdIdle
    /\ ret = RetInit
    /\ canvas_state = CanvasStateInit
    /\ producer = ProducerIdle

\* Nodes are dragged to the right of the middle row and released; badges are
\* computed in every state.
NextBadge ==
    \/ \E id \in NodeIds : NodeMouseDown(id)
    \/ DragNode(400, 100)
    \/ MouseUp
    \/ \E node_id \in NodeIds, target_node_id \in NodeIds :
          GetInputOrderNumber(node_id, target_node_id)

SpecBadge == InitBadge /\ [][NextBadge]_vars

\* ------------------------------------------- claims on input order numbers
\* The connections into t whose source node exists, and those source nodes.
Incoming(t) ==
    {c \in DOMAIN Conns : Conns[c].to_node_id = t /\ Conns[c].from_node_id \in DOMAIN Nodes}

SourceNodesOf(t) == {Conns[c].from_node_id : c \in Incoming(t)}

StrictlyBefore(a, b) == Before(a, b) /\ ~Before(b, a)

FirstIndex(text, ch) ==
    CHOOSE i \in DOMAIN text : text[i] = ch /\ \A j \in DOMAIN text : text[j] = ch => i <= j

\* The output of node a, one letter, stands before that of node b in the input
\* of node t.
OutputBefore(t, a, b) ==
    /\ IsSome(Nodes[t].input)
    /\ LET text == Unwrap(Nodes[t].input)
           la == Unwrap(Nodes[a].output)[1]
           lb == Unwrap(Nodes[b].output)[1]
       IN /\ \E i \in DOMAIN text : text[i] = la
          /\ \E i \in DOMAIN text : text[i] = lb
          /\ FirstIndex(text, la) < FirstIndex(text, lb)

\* The outputs of n and of every other source of t that lies strictly before
\* or behind it stand in that order in the input of t.
InputOrderAgrees(n, t) ==
    \A m \in SourceNodesOf(t) \ {n} :
        (IsSome(Nodes[n].output) /\ IsSome(Nodes[m].output)) =>
            /\ StrictlyBefore(m, n) => OutputBefore(t, m, n)
            /\ StrictlyBefore(n, m) => OutputBefore(t, n, m)

\* C26 (as stated): get_input_order_number(n, t) returns a rank only when t has
\* more than one source node; the rank is the 1-based place of n among the
\* source nodes of t in ascending order of (y, x), and the outputs stand in
\* that order in the input of t.
C26_Original ==
    ret.op = "get_input_order_number" =>
        LET n == ret.a
            t == ret.b
        IN ret.ok =>
              /\ Cardinality(SourceNodesOf(t)) > 1
              /\ \E order \in Perms(SourceNodesOf(t)) :
                    /\ Ascending(order)
                    /\ ret.val \in DOMAIN order
                    /\ order[ret.val] = n
              /\ InputOrderAgrees(n, t)

\* C26, what the code does: a rank is returned exactly when at least two
\* connections from existing nodes end at t, two from the same node counting
\* twice, and n is the source of one of them; the rank is the 1-based place of
\* the first connection from n among these connections in ascending order of
\* their sources' present (y, x); when the input of t is the aggregation of
\* its sources as they are now, the outputs stand in that order in it.
C26_RankCountsConnections ==
    ret.op = "get_input_order_number" =>
        LET n == ret.a
            t == ret.b
        IN /\ ret.ok <=> (Cardinality(Incoming(t)) > 1 /\ n \in SourceNodesOf(t))
           /\ ret.ok =>
                 \E order \in Perms(Incoming(t)) :
                    /\ Ascending(SourcesAlong(order))
                    /\ ret.val \in DOMAIN order
                    /\ Conns[order[ret.val]].from_node_id = n
                    /\ \A i \in 1 .. (ret.val - 1) : Conns[order[i]].from_node_id # n
           /\ (ret.ok /\ IsAggregation(t)) => InputOrderAgrees(n, t)

\* A rank came back for the only source node of a target, connected to it
\* twice.
C26_Witness ==
    /\ ret.op = "get_input_order_number"
    /\ ret.ok
    /\ SourceNodesOf(ret.b) = {ret.a}

\* ------------------------------------------------- executions that end
\* One task executes nodes, in a batch run or after a chat message, while the
\* user deletes nodes.
NextExecution ==
    \/ RunWorkflow(1)
    \/ \E id \in NodeIds, text \in MessageTexts : SendMessage(1, id, text)
    \/ RunRequestFailed(1)
    \/ RunRequestOk(1)
    \/ RunRecvChunk(1, StreamChunk(1, Len(tasks[1].delivered) + 1))
    \/ RunRecvNone(1)
    \/ \E id \in NodeIds : RemoveNode(id)

SpecExecution == InitConcurrent /\ [][NextExecution]_vars

\* The provider answers every request, with an error or with a stream, and
\* closes every stream; the runtime polls the task that awaits it.
FairSpecExecution ==
    /\ SpecExecution
    /\ WF_vars(RunRequestFailed(1) \/ RunRequestOk(1))
    /\ WF_vars(RunRecvNone(1))

\* C27: whenever a call is in flight for node n, then later n has been deleted
\* or its is_executing is false: the request fails or the stream closes, and
\* either clears the flag of a node that is still in the graph.
C27_ExecutingEventuallyCleared ==
    \A n \in NodeIds :
        (InFlight(1) /\ tasks[1].node_id = n /\ HasNode(n) /\ Nodes[n].is_executing)
            ~> (~HasNode(n) \/ ~Nodes[n].is_executing)

\* The stream of the last node of a run has closed after a chunk: the node is in
\* the graph and is not executing.
C27_Witness ==
    /\ ret.op = "stream_end"
    /\ ret.val >= 1
    /\ HasNode(ret.b)
    /\ ~Nodes[ret.b].is_executing
    /\ tasks[1].pc = "done"

\* ------------------------------------------------- panning and zooming
\* The page points of the mouse events, and the wheel events: a WheelDelta
\* unit and its y component.  -900 pixels zoom in tenfold, 10 pages zoom out
\* below the minimum.
PagePoints == {<<0, 0>>, <<6, 3>>}
PanPoints == {<<4, 2>>}
WheelDeltas == {<<"Pixels", -900>>, <<"Pages", 10>>}

\* The canvas is kept near the origin.
Within(canvas) ==
    /\ ~Less(Float(MaxOffset), canvas.offset_x)
    /\ ~Less(canvas.offset_x, Float(-MaxOffset))
    /\ ~Less(Float(MaxOffset), canvas.offset_y)
    /\ ~Less(canvas.offset_y, Float(-MaxOffset))

\* on_mouse_down of the canvas, primary button
CanvasMouseDown(p) ==
    /\ canvas_state' = [canvas_state EXCEPT
                          !.dragging = TRUE,
                          !.drag_start_x = Float(p[1]),
                          !.drag_start_y = Float(p[2]),
                          !.last_offset_x = canvas_state.offset_x,
                          !.last_offset_y = canvas_state.offset_y]
    /\ ret' = Ret("on_mouse_down", p, -1, TRUE, -1, {})
    /\ UNCHANGED <<workflow_state, tasks, ord, producer>>

\* on_mouse_move of the canvas, when no connection is drawn and no node dragged
CanvasMouseMove(p) ==
    /\ ~workflow_state.drawing_connection_state.active
    /\ ~IsSome(workflow_state.dragging_node_id)
    /\ canvas_state.dragging
    /\ LET dx == Sub(Float(p[1]), canvas_state.drag_start_x)
           dy == Sub(Float(p[2]), canvas_state.drag_start_y)
       IN canvas_state' = [canvas_state EXCEPT
                             !.offset_x = Add(canvas_state.last_offset_x, dx),
                             !.offset_y = Add(canvas_state.last_offset_y, dy)]
    /\ Within(canvas_state')
    /\ ret' = Ret("on_mouse_move", p, -1, TRUE, -1, {})
    /\ UNCHANGED <<workflow_state, tasks, ord, producer>>

\* on_mouse_up of the canvas, when no connection is drawn and no node dragged
CanvasMouseUp ==
    /\ ~workflow_state.drawing_connection_state.active
    /\ ~IsSome(workflow_state.dragging_node_id)
    /\ canvas_state.dragging
    /\ canvas_state' = [canvas_state EXCEPT !.dragging = FALSE]
    /\ ret' = Ret("on_mouse_up", -1, -1, TRUE, -1, {})
    /\ UNCHANGED <<workflow_state, tasks, ord, producer>>

\* on_wheel with the mouse at the page point mouse; val is the world point
\* under the mouse before the zoom.
OnWheel(mouse, wheel) ==
    /\ canvas_state' = on_wheel(canvas_state, Float(mouse[1]), Float(mouse[2]),
                                wheel[1], Float(wheel[2]))
    /\ Within(canvas_state')
    /\ ret' = Ret("on_wheel", mouse, wheel, TRUE,
                  page_to_world_coords(canvas_state, Float(mouse[1]), Float(mouse[2])),
                  {})
    /\ UNCHANGED <<workflow_state, tasks, ord, producer>>

\* page_to_world_coords and then world_to_page_coords, applied to a page
\* point; b is the world point between the two.
RoundTrip(p) ==
    /\ LET world == page_to_world_coords(canvas_state, Float(p[1]), Float(p[2]))
       IN ret' = Ret("world_to_page_coords", p, world, TRUE,
                     world_to_page_coords(canvas_state, world[1], world[2]), {})
    /\ UNCHANGED <<workflow_state, tasks, ord, canvas_state, producer>>

NextCanvas ==
    \/ CanvasMouseDown(<<0, 0>>)
    \/ \E p \in PanPoints : CanvasMouseMove(p)
    \/ CanvasMouseUp
    \/ \E mouse \in PagePoints, wheel \in WheelDeltas : OnWheel(mouse, wheel)
    \/ \E p \in PagePoints : RoundTrip(p)

SpecCanvas == InitGraph /\ [][NextCanvas]_vars

\* ------------------------------------------- claims on canvas coordinates
\* |x - p| <= 4 * 2^-Precision * (|p| + |offset|), in exact arithmetic: x is p
\* up to the rounding of the few operations between them.
Close(x, p, offset) ==
    Abs((x[1] * p[2]) - (p[1] * x[2])) * Pow2(Precision) * offset[2]
        <= 4 * ((Abs(p[1]) * offset[2]) + (Abs(offset[1]) * p[2])) * x[2]

ZoomInRange ==
    /\ ~Less(canvas_state.zoom, ZoomMin)
    /\ ~Less(ZoomMax, canvas_state.zoom)

\* C28 as stated: the zoom stays within [0.1, 10], world_to_page_coords of
\* page_to_world_coords of a page point is exactly that point, and on_wheel
\* maps the world point under the mouse exactly to the page point of the mouse.
C28_Original ==
    /\ ZoomInRange
    /\ ret.op = "world_to_page_coords" =>
          ret.val = <<Float(ret.a[1]), Float(ret.a[2])>>
    /\ ret.op = "on_wheel" =>
          world_to_page_coords(canvas_state, ret.val[1], ret.val[2])
              = <<Float(ret.a[1]), Float(ret.a[2])>>

\* C28: the zoom stays within [0.1, 10]; world_to_page_coords of
\* page_to_world_coords of a page point p is p up to the rounding of the
\* arithmetic, and after on_wheel the world point that was under the mouse is
\* mapped to the page point of the mouse up to the same rounding.
C28_RoundTripWithinTolerance ==
    /\ ZoomInRange
    /\ ret.op = "world_to_page_coords" =>
          /\ Close(ret.val[1], Float(ret.a[1]), canvas_state.offset_x)
          /\ Close(ret.val[2], Float(ret.a[2]), canvas_state.offset_y)
    /\ ret.op = "on_wheel" =>
          LET page == world_to_page_coords(canvas_state, ret.val[1], ret.val[2])
          IN /\ Close(page[1], Float(ret.a[1]), canvas_state.offset_x)
             /\ Close(page[2], Float(ret.a[2]), canvas_state.offset_y)

\* A page point comes back from the round trip moved, but close, on a panned
\* canvas that on_wheel has zoomed to the minimum.
C28_Witness ==
    /\ ret.op = "world_to_page_coords"
    /\ ret.val # <<Float(ret.a[1]), Float(ret.a[2])>>
    /\ Close(ret.val[1], Float(ret.a[1]), canvas_state.offset_x)
    /\ canvas_state.zoom = ZoomMin
    /\ canvas_state.offset_x # Float(0)

\* ------------------------------------------- claims on the assistant turn
EmptyAssistantTurn == ChatMessage("assistant", EmptyString, None)

\* The chat histories a prompt can have been prepared from: the prompt itself,
\* or the prompt without the user turn that carries the input.
HistoriesSent(prompt) ==
    {prompt} \cup (IF Len(prompt) > 0 /\ prompt[1].role = "user"
                   THEN {Tail(prompt)} ELSE {})

\* C29 (as stated): opening the stream leaves the chat history of the node as
\* it is, the assistant turn being appended when the first chunk is applied;
\* and when a stream closes before any chunk the history is the one the
\* request was prepared from.
C29_Original ==
    [][\A t \in TaskIds :
          LET n == tasks[t].node_id
          IN /\ (ret'.op = "stream_open" /\ ret'.a = t /\ HasNode(n))
                    => workflow_state'.nodes[n].messages = Nodes[n].messages
             /\ (ret'.op = "stream_end" /\ ret'.a = t /\ ret'.val = 0 /\ HasNode(n))
                    => workflow_state'.nodes[n].messages
                          \in HistoriesSent(tasks[t].prompt)]_vars

\* C29, what the code does: the empty assistant turn is appended when the
\* stream is opened, before any chunk; no chunk adds a turn; and when a stream
\* closes before any chunk the history is the one the request was prepared
\* from followed by the empty assistant turn.
C29_TurnAppendedAtOpening ==
    [][\A t \in TaskIds :
          LET n == tasks[t].node_id
              before == Nodes[n].messages
              after == workflow_state'.nodes[n].messages
          IN /\ (ret'.op = "stream_open" /\ ret'.a = t /\ HasNode(n))
                    => after = Append(before, EmptyAssistantTurn)
             /\ (ret'.op = "chunk" /\ ret'.a = t /\ HasNode(n))
                    => Len(after) = Len(before)
             /\ (ret'.op = "stream_end" /\ ret'.a = t /\ ret'.val = 0 /\ HasNode(n))
                    => /\ after = before
                       /\ Len(after) > 0
                       /\ Last(after) = EmptyAssistantTurn
                       /\ Front(after) \in HistoriesSent(tasks[t].prompt)]_vars

\* A stream has closed without a chunk and without an error, and the history
\* of its node ends with an empty assistant turn.
C29_Witness ==
    /\ ret.op = "stream_end"
    /\ ret.val = 0
    /\ ret.ok
    /\ HasNode(ret.b)
    /\ Len(Nodes[ret.b].messages) > 0
    /\ Last(Nodes[ret.b].messages) = EmptyAssistantTurn

\* ------------------------------------------- inputs changed during a stream
\* One batch run, while the user edits the Prompt node and connects it to
\* Model nodes.
NextStale ==
    \/ RunWorkflow(1)
    \/ RunRequestFailed(1)
    \/ RunRequestOk(1)
    \/ RunRecvChunk(1, StreamChunk(1, Len(tasks[1].delivered) + 1))
    \/ RunRecvNone(1)
    \/ \E text \in PromptTexts(0) : SetPromptOutput(0, text)
    \/ \E to \in NodeIds \ {0} : AddConnection(0, to)

SpecStale == InitConcurrent /\ [][NextStale]_vars

\* ---------------------------------- claims on inputs changed during a stream
\* The user turn prepare_prompt makes of an input.
Leading(input) ==
    IF IsSome(input) /\ ~TrimIsEmpty(Unwrap(input))
    THEN <<ChatMessage("user", Unwrap(input), None)>>
    ELSE <<>>

\* The input of the node that task t executes is not the one its prompt was
\* prepared from; history is the chat history of the node at that time.
InputChangedSince(t, history) ==
    Leading(Nodes[tasks[t].node_id].input)
        # SubSeq(tasks[t].prompt, 1, Len(tasks[t].prompt) - Len(history))

\* C30 (as stated): when the stream of a node ends and the node's input is no
\* longer the one the execution was started with, the node needs execution.
C30_Original ==
    [][\A t \in TaskIds :
          (/\ StreamCloses(t)
           /\ InputChangedSince(t, Front(Nodes[tasks[t].node_id].messages)))
              => workflow_state'.nodes[tasks[t].node_id].needs_execution]_vars

\* C30, what the code does: while the stream of node n is in flight, a change
\* of n's input sets needs_execution of n, every chunk of the stream clears it,
\* and the end of the stream leaves it as it is: at the end the node needs
\* execution only if its input changed after the last chunk.
C30_LastWriteDecides ==
    [][\A t \in TaskIds :
          LET n == tasks[t].node_id
          IN /\ (/\ Streaming(t)
                 /\ ret'.op \in {"update_node_output", "add_connection"}
                 /\ ret'.ok
                 /\ n \in ret'.touched)
                    => workflow_state'.nodes[n].needs_execution
             /\ (Streaming(t) /\ ret'.op = "chunk" /\ ret'.a = t)
                    => ~workflow_state'.nodes[n].needs_execution
             /\ StreamCloses(t)
                    => workflow_state'.nodes[n].needs_execution
                          = Nodes[n].needs_execution]_vars

\* The stream of the last node of the run has ended after a chunk; the node's
\* input is not the one the prompt was prepared from, and the node does not
\* need execution.
C30_Witness ==
    /\ ret.op = "stream_end" /\ ret.ok /\ ret.val >= 1
    /\ tasks[1].pc = "done"
    /\ tasks[1].node_id = ret.b
    /\ HasNode(ret.b)
    /\ InputChangedSince(1, Front(Nodes[ret.b].messages))
    /\ ~Nodes[ret.b].needs_execution

\* ------------------------------------------- user actions during a stream
\* Node::reset
reset(node) ==
    [node EXCEPT !.output = None,
                 !.needs_execution = TRUE,
                 !.messages = IF node.kind = "Model" THEN <<>> ELSE @]

\* on_reset
ResetNode(id) ==
    /\ id \in DOMAIN workflow_state.nodes
    /\ workflow_state' = [workflow_state EXCEPT !.nodes[id] = reset(@)]
    /\ ret' = Ret("reset", id, -1, TRUE, -1, {})
    /\ UNCHANGED <<tasks, ord, canvas_state, producer>>

\* Model 1 is executed by task 1, in a batch run or after a chat message,
\* while the user resets it or sends it a chat message, which is task 2.
NextChat ==
    \/ RunWorkflow(1)
    \/ \E text \in MessageTexts : SendMessage(1, 1, text)
    \/ \E text \in MessageTexts : SendMessage(2, 1, text)
    \/ ResetNode(1)
    \/ \E t \in TaskIds :
          \/ RunRequestFailed(t)
          \/ RunRequestOk(t)
          \/ RunRecvChunk(t, StreamChunk(t, Len(tasks[t].delivered) + 1))
          \/ RunRecvNone(t)

SpecChat == InitConcurrent /\ [][NextChat]_vars

\* ---------------------------------- claims on user actions during a stream
\* C31 (as stated): a chunk leaves every user turn of the node's history as it
\* is and appends its fragments to an assistant turn of that history.
C31_Original ==
    [][\A t \in TaskIds :
          AppliesChunk(t) =>
              LET before == Nodes[tasks[t].node_id].messages
                  after == workflow_state'.nodes[tasks[t].node_id].messages
                  message_chunk == Last(tasks'[t].delivered)
              IN /\ Len(after) = Len(before)
                 /\ \A i \in 1 .. Len(before) :
                       before[i].role = "user" => after[i] = before[i]
                 /\ \E i \in 1 .. Len(before) :
                       /\ before[i].role = "assistant"
                       /\ after[i] = ApplyToLast(before[i], message_chunk)]_vars

\* C31, what the code does: a chunk appends its fragments to the last turn of
\* the node's history at the time it is applied, whatever the role of that
\* turn and whichever execution created it, and to no turn when the history is
\* empty; every other turn is left as it is.
C31_ChunkGoesToLastTurn ==
    [][\A t \in TaskIds :
          AppliesChunk(t) =>
              LET before == Nodes[tasks[t].node_id].messages
                  after == workflow_state'.nodes[tasks[t].node_id].messages
                  message_chunk == Last(tasks'[t].delivered)
              IN /\ Len(after) = Len(before)
                 /\ \A i \in 1 .. Len(before) :
                       after[i] = IF i = Len(before)
                                  THEN ApplyToLast(before[i], message_chunk)
                                  ELSE before[i]]_vars

\* A chunk was applied to the node and the last turn of its history is a user
\* turn that holds more than the user typed.
C31_Witness ==
    /\ ret.op = "chunk"
    /\ HasNode(ret.b)
    /\ Len(Nodes[ret.b].messages) > 0
    /\ Last(Nodes[ret.b].messages).role = "user"
    /\ Last(Nodes[ret.b].messages).content \notin MessageTexts

\* A chunk was applied to a node whose history a reset had emptied.
C31_WitnessReset ==
    /\ ret.op = "chunk"
    /\ HasNode(ret.b)
    /\ Nodes[ret.b].messages = <<>>

\* ------------------------------------------------- runs without the user
\* One scheduled run of a built workflow, and nothing else.
NextBatch ==
    \/ RunWorkflow(1)
    \/ RunRequestFailed(1)
    \/ RunRequestOk(1)
    \/ \E message_chunk \in Chunks : RunRecvChunk(1, message_chunk)
    \/ RunRecvNone(1)

SpecBatch == InitRun /\ [][NextBatch]_vars

\* ---------------------------------------- claims on runs without the user
IsSubstring(sub, text) ==
    \E i \in 0 .. (Len(text) - Len(sub)) : SubSeq(text, i + 1, i + Len(sub)) = sub

\* Task t starts the execution of a node in this step: the node is marked as
\* executing, its prompt is prepared and the request is issued.
StartsNode(t) ==
    /\ tasks'[t].pc = "request"
    /\ tasks[t].pc = "idle" \/ tasks'[t].idx > tasks[t].idx

InputRecomputed(t) ==
    IF Contributing(t) = {} THEN Nodes[t].input = None
    ELSE \E order \in Perms(Contributing(t)) :
            /\ Ascending(SourcesAlong(order))
            /\ Nodes[t].input = Some(BlankLineJoined(SourcesAlong(order)))

\* C33: drag_node changes no node's input; after end_dragging_node no node is
\* dragged and the input of every direct target of the released node is the one
\* computed from the present positions of its sources.
C33_ReleaseRecomputesTargets ==
    /\ [](ret.op = "end_dragging_node" =>
             /\ workflow_state.dragging_node_id = None
             /\ \A c \in DOMAIN Conns :
                   (Conns[c].from_node_id = ret.a /\ HasNode(Conns[c].to_node_id))
                       => InputRecomputed(Conns[c].to_node_id))
    /\ [][ret'.op = "drag_node" =>
             /\ DOMAIN workflow_state'.nodes = DOMAIN Nodes
             /\ \A n \in DOMAIN Nodes :
                   workflow_state'.nodes[n].input = Nodes[n].input]_vars

\* Prompt 0, built above Prompt 1, was dragged below it and released: the input
\* of their target Model 2 now leads with the output of Prompt 1.
C33_Witness ==
    /\ ret.op = "end_dragging_node" /\ ret.a = 0
    /\ \E c1, c2 \in Contributing(2) :
          /\ Conns[c1].from_node_id = 0
          /\ Conns[c2].from_node_id = 1
    /\ ~Before(0, 1)
    /\ Nodes[2].input = Some(BlankLineJoined(<<1, 0>>))

\* ---------------------------------------------------------- claims on ids
\* C34: each id counter is greater than every id in its map and never
\* decreases; a node or connection that enters its map has the id the counter
\* had, which add_node and add_connection return, and the counter is then one
\* more: no id is handed out twice, the ids of removed entries included.
C34_IdsNeverReused ==
    /\ [](/\ \A id \in DOMAIN Nodes : id < workflow_state.next_node_id
          /\ \A c \in DOMAIN Conns : c < workflow_state.next_connection_id)
    /\ [][/\ workflow_state'.next_node_id >= workflow_state.next_node_id
          /\ workflow_state'.next_connection_id >= workflow_state.next_connection_id
          /\ \A id \in (DOMAIN workflow_state'.nodes) \ DOMAIN Nodes :
                /\ id = workflow_state.next_node_id
                /\ workflow_state'.next_node_id = id + 1
          /\ \A c \in (DOMAIN workflow_state'.connections) \ DOMAIN Conns :
                /\ c = workflow_state.next_connection_id
                /\ workflow_state'.next_connection_id = c + 1
          /\ ret'.op = "add_node"
                => (DOMAIN workflow_state'.nodes) \ DOMAIN Nodes = {ret'.val}
          /\ (ret'.op \in {"add_connection", "complete_drawing_connection"} /\ ret'.ok)
                => (DOMAIN workflow_state'.connections) \ DOMAIN Conns = {ret'.val}]_vars

\* Node 0 and connection 0 were removed, a node was added and then a
\* connection: the node is node 2 and the connection is connection 1.
C34_Witness ==
    /\ ret.op = "add_connection" /\ ret.ok
    /\ ret.val = 1
    /\ DOMAIN Conns = {1}
    /\ ~HasNode(0)
    /\ HasNode(2)

\* ------------------------------------------------------- provider streams
MaxFrames == 2
MaxReads == 3

Providers == {"ollama", "anthropic"}

\* The lines a provider writes, each followed by "\n": a content frame, a
\* thinking frame, a content frame with an empty text, a malformed line.
Lines == {<<"c", "E">>, <<"t", "x">>, <<"c">>, <<"#">>}

\* The frame that closes a response (done = true, message_stop).
DoneLine == <<"d">>

Replacement == "?"

\* UTF-8: "E" takes two bytes, every other character one.
Utf8(ch) == IF ch = "E" THEN <<"C3", "A9">> ELSE <<ch>>

RECURSIVE Bytes(_)
Bytes(str) == IF str = <<>> THEN <<>> ELSE Utf8(Head(str)) \o Bytes(Tail(str))

RECURSIVE Body(_)
Body(lines) ==
    IF lines = <<>> THEN <<>>
    ELSE Bytes(Head(lines)) \o <<"\n">> \o Body(Tail(lines))

\* The pieces of bytes[from ..], cut after each position of cuts.
RECURSIVE SplitAt(_, _, _)
SplitAt(bytes, cuts, from) ==
    LET later == {c \in cuts : c >= from}
    IN IF later = {} THEN <<SubSeq(bytes, from, Len(bytes))>>
       ELSE LET c == CHOOSE c \in later : \A d \in later : c <= d
            IN <<SubSeq(bytes, from, c)>> \o SplitAt(bytes, cuts, c + 1)

\* The sets of at most k positions among 1 .. n.
RECURSIVE Cuts(_, _)
Cuts(n, k) ==
    IF k = 0 THEN {{}}
    ELSE LET fewer == Cuts(n, k - 1)
         IN fewer \cup {c \cup {x} : c \in fewer, x \in 1 .. n}

\* The ways a body reaches response.chunk(): at most MaxReads reads, none empty.
NetworkReads(bytes) ==
    {SplitAt(bytes, cuts, 1) : cuts \in Cuts(Len(bytes) - 1, MaxReads - 1)}

\* String::from_utf8_lossy: a lead byte without its continuation byte, and a
\* continuation byte without its lead byte, each become U+FFFD.
RECURSIVE from_utf8_lossy(_)
from_utf8_lossy(bytes) ==
    IF bytes = <<>> THEN <<>>
    ELSE IF Head(bytes) = "C3" /\ Len(bytes) >= 2 /\ bytes[2] = "A9"
    THEN <<"E">> \o from_utf8_lossy(SubSeq(bytes, 3, Len(bytes)))
    ELSE IF Head(bytes) \in {"C3", "A9"}
    THEN <<Replacement>> \o from_utf8_lossy(Tail(bytes))
    ELSE <<Head(bytes)>> \o from_utf8_lossy(Tail(bytes))

\* str::trim
RECURSIVE trim(_)
trim(str) ==
    IF str = <<>> THEN str
    ELSE IF Head(str) \in Whitespace \cup {"\r"} THEN trim(Tail(str))
    ELSE IF Last(str) \in Whitespace \cup {"\r"} THEN trim(Front(str))
    ELSE str

\* serde_json::from_str::<OllamaResponse>(&line); ok = FALSE is the Err.
ParseOllama(line) ==
    IF line # <<>> /\ Head(line) = "c"
    THEN [ok |-> TRUE, done |-> FALSE,
          message |-> ChatMessage("assistant", Tail(line), None)]
    ELSE IF line # <<>> /\ Head(line) = "t"
    THEN [ok |-> TRUE, done |-> FALSE,
          message |-> ChatMessage("assistant", EmptyString, Some(Tail(line)))]
    ELSE IF line = DoneLine
    THEN [ok |-> TRUE, done |-> TRUE,
          message |-> ChatMessage("assistant", EmptyString, None)]
    ELSE [ok |-> FALSE, done |-> FALSE,
          message |-> ChatMessage("assistant", EmptyString, None)]

\* The body of the inner loop of OllamaClient::generate for one line:
\* the messages sent on the channel, and whether the task returns.
OllamaLine(line) ==
    LET response_chunk == ParseOllama(line)
    IN IF line = <<>> \/ ~response_chunk.ok
       THEN [send |-> <<>>, return |-> FALSE]
       ELSE [send |-> IF response_chunk.message.content # EmptyString
                         \/ IsSome(response_chunk.message.thinking)
                      THEN <<response_chunk.message>> ELSE <<>>,
             return |-> response_chunk.done]

\* The body of the inner loop of AnthropicClient::generate for one line: only
\* a content_block_delta with a non-empty text or thinking is sent.
AnthropicLine(line) ==
    IF line = <<>> \/ Head(line) \notin {"c", "t"} \/ Tail(line) = EmptyString
    THEN [send |-> <<>>, return |-> FALSE]
    ELSE IF Head(line) = "c"
    THEN [send |-> <<ChatMessage("assistant", Tail(line), None)>>, return |-> FALSE]
    ELSE [send |-> <<ChatMessage("assistant", EmptyString, Some(Tail(line)))>>,
          return |-> FALSE]

\* while let Some(line_end) = buffer.find('\n') { ... }
RECURSIVE DrainLines(_, _, _)
DrainLines(provider, buffer, sent) ==
    IF \A i \in 1 .. Len(buffer) : buffer[i] # "\n"
    THEN [buffer |-> buffer, sent |-> sent, return |-> FALSE]
    ELSE LET line_end == CHOOSE i \in 1 .. Len(buffer) :
                            /\ buffer[i] = "\n"
                            /\ \A j \in 1 .. (i - 1) : buffer[j] # "\n"
             line == trim(SubSeq(buffer, 1, line_end - 1))
             rest == SubSeq(buffer, line_end + 1, Len(buffer))
             step == IF provider = "ollama" THEN OllamaLine(line)
                     ELSE AnthropicLine(line)
         IN IF step.return
            THEN [buffer |-> rest, sent |-> sent \o step.send, return |-> TRUE]
            ELSE DrainLines(provider, rest, sent \o step.send)

\* generate(): the request succeeded and the producer task is spawned; the
\* provider will write the lines, and the network deliver them as reads.
Generate(provider, lines, reads) ==
    /\ producer.pc = "idle"
    /\ producer' = [pc |-> "reading", provider |-> provider, frames |-> lines,
                    reads |-> reads, pending |-> reads, buffer |-> EmptyString,
                    sent |-> <<>>]
    /\ ret' = Ret("generate", -1, -1, TRUE, -1, {})
    /\ UNCHANGED <<workflow_state, tasks, ord, canvas_state>>

\* response.chunk() gives Some(bytes): decode, append, take the lines off.
ProducerChunk ==
    /\ producer.pc = "reading"
    /\ producer.pending # <<>>
    /\ LET drained == DrainLines(producer.provider,
                                 producer.buffer \o from_utf8_lossy(Head(producer.pending)),
                                 producer.sent)
       IN producer' = [producer EXCEPT
                          !.pc = IF drained.return THEN "closed" ELSE "reading",
                          !.pending = Tail(@),
                          !.buffer = drained.buffer,
                          !.sent = drained.sent]
    /\ ret' = Ret("chunk", -1, -1, TRUE, -1, {})
    /\ UNCHANGED <<workflow_state, tasks, ord, canvas_state>>

\* response.chunk() gives None: the task ends and the channel closes.
ProducerEnd ==
    /\ producer.pc = "reading"
    /\ producer.pending = <<>>
    /\ producer' = [producer EXCEPT !.pc = "closed"]
    /\ ret' = Ret("end", -1, -1, TRUE, -1, {})
    /\ UNCHANGED <<workflow_state, tasks, ord, canvas_state>>

RECURSIVE SeqsUpTo(_, _)
SeqsUpTo(S, n) ==
    IF n = 0 THEN {<<>>}
    ELSE LET shorter == SeqsUpTo(S, n - 1)
         IN shorter \cup {Append(q, x) : q \in shorter, x \in S}

\* What a provider writes: up to MaxFrames lines, then possibly the closing frame.
Responses ==
    {q \o closing : q \in SeqsUpTo(Lines, MaxFrames) \ {<<>>},
                    closing \in {<<>>, <<DoneLine>>}}

NextProducer ==
    \/ \E provider \in Providers, lines \in Responses :
          \E reads \in NetworkReads(Body(lines)) : Generate(provider, lines, reads)
    \/ ProducerChunk
    \/ ProducerEnd

SpecProducer == InitGraph /\ [][NextProducer]_vars

\* The chunk a line carries, if it is a well-formed frame with content or thinking.
Carried(line) ==
    IF Len(line) >= 2 /\ Head(line) = "c"
    THEN <<ChatMessage("assistant", Tail(line), None)>>
    ELSE IF Len(line) >= 2 /\ Head(line) = "t"
    THEN <<ChatMessage("assistant", EmptyString, Some(Tail(line)))>>
    ELSE <<>>

RECURSIVE CarriedBy(_)
CarriedBy(lines) ==
    IF lines = <<>> THEN <<>> ELSE Carried(Head(lines)) \o CarriedBy(Tail(lines))

Garbled(str) == \E i \in 1 .. Len(str) : str[i] = Replacement

\* A read ends between the two bytes of a character.
SplitsCharacter(reads) ==
    \E i \in 1 .. Len(reads) : Last(reads[i]) = "C3"

\* C35 as stated: when the stream has closed, the chunks delivered are the
\* well-formed frames carrying content or thinking, in their order, however
\* the body was split into reads.
C35_Original ==
    producer.pc = "closed" => producer.sent = CarriedBy(producer.frames)

\* C35, what the code does: when the stream has closed there is one chunk
\* for each well-formed frame carrying content or thinking, in their order
\* (so a malformed line is dropped and the frames after it are delivered);
\* a chunk is the frame's chunk unless a read ended inside one of its
\* characters, and then its text holds U+FFFD in place of the character.
C35_LinesSurviveSplitsCharactersDoNot ==
    producer.pc = "closed" =>
        LET carried == CarriedBy(producer.frames)
        IN /\ Len(producer.sent) = Len(carried)
           /\ \A i \in 1 .. Len(carried) :
                 \/ producer.sent[i] = carried[i]
                 \/ /\ Garbled(producer.sent[i].content)
                    /\ producer.sent[i].thinking = carried[i].thinking
                    /\ Len(producer.sent[i].content) = Len(carried[i].content) + 1
           /\ ~SplitsCharacter(producer.reads) => producer.sent = carried

C35_Witness ==
    /\ producer.pc = "closed"
    /\ producer.frames = <<<<"#">>, <<"c", "E">>>>
    /\ SplitsCharacter(producer.reads)
    /\ producer.sent = <<ChatMessage("assistant", <<Replacement, Replacement>>, None)>>

\* ------------------------------------------------ claims on dangling ends
Attached(c) ==
    /\ HasNode(Conns[c].from_node_id)
    /\ HasNode(Conns[c].to_node_id)

BehindCycle(id) ==
    \E m \in Eligible :
        /\ OnCycle(m)
        /\ m = id \/ PathWithin(m, id, Cardinality(Eligible))

\* C37: when the eligible nodes contain a cycle, execution_order returns
\* exactly the eligible nodes that are neither on a cycle nor downstream of
\* one, directly or through other eligible nodes.
C37_DownstreamOfCycleOmitted ==
    (ord.pc = "done" /\ \E m \in Eligible : OnCycle(m)) =>
        Range(ord.result) = {id \in Eligible : ~BehindCycle(id)}

\* A finished order on a cycle of two nodes that feeds a third eligible node.
C37_Witness ==
    /\ ord.pc = "done"
    /\ \E id \in Eligible :
          /\ ~OnCycle(id)
          /\ BehindCycle(id)
          /\ id \notin Range(ord.result)

\* A finished order on a cycle fed by an eligible node, which is returned.
C37_WitnessUpstream ==
    /\ ord.pc = "done"
    /\ \E m \in Eligible : OnCycle(m)
    /\ Len(ord.result) = 1

\* ------------------------------------------- claims on nodes marked late
\* A Model node that the run in progress, or finished, does not list.
Unlisted(id) ==
    /\ tasks[1].pc # "idle"
    /\ HasNode(id)
    /\ Nodes[id].kind = "Model"
    /\ id \notin Range(tasks[1].order)

\* C38: the order is computed when the run starts, from the nodes eligible at
\* that moment, and is not changed afterwards; a Model node outside it is not
\* executed by the run (its flag is_executing, its history and its output stay
\* as they are), and when a chunk of an upstream node marks it, it has
\* needs_execution = TRUE from then on, the end of the run included.
C38_OrderComputedOnce ==
    [][/\ (tasks[1].pc = "idle" /\ tasks'[1].pc # "idle")
             => Range(tasks'[1].order) \subseteq Eligible
       /\ tasks[1].pc # "idle" => tasks'[1].order = tasks[1].order
       /\ \A id \in NodeIds :
             Unlisted(id) =>
                /\ Unlisted(id)'
                /\ ~Nodes[id].is_executing
                /\ workflow_state'.nodes[id].messages = Nodes[id].messages
                /\ workflow_state'.nodes[id].output = Nodes[id].output
                /\ (ret'.op = "chunk" /\ id \in ret'.touched)
                      => workflow_state'.nodes[id].needs_execution
                /\ Nodes[id].needs_execution
                      => workflow_state'.nodes[id].needs_execution]_vars

\* The run has ended; a Model node that had been executed before the run and
\* was not eligible when it started has been marked by the output of its
\* source, and has not been executed again.
C38_Witness ==
    /\ tasks[1].pc = "done"
    /\ \E id \in NodeIds, c \in DOMAIN Conns :
          /\ Unlisted(id)
          /\ Nodes[id].needs_execution
          /\ Len(Nodes[id].messages) = 2
          /\ Conns[c].to_node_id = id
          /\ Conns[c].from_node_id \in Range(tasks[1].order)
          /\ "streamed" \in Range(tasks[1].outcome)

\* ------------------------------------------------ claims on finished runs
\* Every node of the order had a prompt and a stream that delivered a chunk
\* and closed: since then its last turn is an assistant turn that is not empty.
EveryStreamDelivered ==
    /\ tasks[1].pc = "done"
    /\ Len(tasks[1].outcome) = Len(tasks[1].order)
    /\ \A i \in 1 .. Len(tasks[1].order) :
          /\ tasks[1].outcome[i] = "streamed"
          /\ HasNode(tasks[1].order[i])
          /\ Last(Nodes[tasks[1].order[i]].messages).role = "assistant"
          /\ Last(Nodes[tasks[1].order[i]].messages) # EmptyAssistantTurn

\* C39: after a run in which every node of the order had a prompt and a
\* stream that delivered at least one chunk and closed, with no user action in
\* between, every node of the order has needs_execution = FALSE and
\* is_executing = FALSE; and no chunk marks a node that comes earlier in the
\* order than the node it belongs to.
C39_RunLeavesOrderClean ==
    /\ [](EveryStreamDelivered =>
             \A i \in 1 .. Len(tasks[1].order) :
                /\ ~Nodes[tasks[1].order[i]].needs_execution
                /\ ~Nodes[tasks[1].order[i]].is_executing)
    /\ [][ret'.op = "chunk" =>
             \A i \in 1 .. (tasks[1].idx - 1) : tasks[1].order[i] \notin ret'.touched]_vars

\* A finished run of two Model nodes, both eligible when it started: a Prompt
\* node feeds the first and the first feeds the second.
C39_Witness ==
    /\ EveryStreamDelivered
    /\ Len(tasks[1].order) = 2
    /\ \E c, d \in DOMAIN Conns :
          /\ Nodes[Conns[c].from_node_id].kind = "Prompt"
          /\ Conns[c].to_node_id = tasks[1].order[1]
          /\ Conns[d].from_node_id = tasks[1].order[1]
          /\ Conns[d].to_node_id = tasks[1].order[2]

====
